---- MODULE Spec2Model ----
(***************************************************************************)
(* Ledger semantics exercised by the xrpl-stablecoin-flow integration      *)
(* flows: account flags, trust lines, payments, clawback, checks and       *)
(* deposit preauthorization.  One issuer issues one currency (CURRENCY) to *)
(* the holders; every transaction is applied atomically and yields a       *)
(* result code.                                                            *)
(***************************************************************************)
EXTENDS Integers, Sequences, FiniteSets, TLC

VARIABLES flags, xrpBalance, preauthorized, lines, checks, last, flow, fund, xrpl, engine

vars == <<flags, xrpBalance, preauthorized, lines, checks, last, flow, fund, xrpl, engine>>
ledger == <<flags, xrpBalance, preauthorized, lines, checks>>

(* ------------------------------ bounds --------------------------------- *)
MaxLimit == 2     \* largest trust-line limit a holder requests
MaxAmount == 2    \* largest token amount of a payment, clawback or check
MaxChecks == 1    \* checks created in one behaviour
StartXrp == 2     \* XRP units each wallet is funded with

(* ----------------------------- vocabulary ------------------------------ *)
issuerWallet == "issuer"
aliceWallet == "alice"
bobWallet == "bob"
Accounts == {issuerWallet, aliceWallet, bobWallet}
Holders == {aliceWallet, bobWallet}
Unfunded == "unfunded"       \* an address that was never funded
Addresses == Accounts \cup {Unfunded}

CURRENCY == "USD"
XRP == "XRP"

AccountFlags ==
  {"RequireAuth", "DefaultRipple", "DisallowXRP", "DepositAuth", "GlobalFreeze",
   "AllowTrustLineClawback"}

ResultCodes ==
  {"Success", "NoAuth", "PathDry", "NoPermission", "NoEntry",
   "InsufficientReserve", "InsufficientLimit", "NotFound"}

ReserveFloor == 1

NoLine ==
  [exists |-> FALSE, limit |-> 0, limitPeer |-> 0, balance |-> 0, balancePeer |-> 0,
   noRipple |-> FALSE, noRipplePeer |-> FALSE, authorized |-> FALSE, clawback |-> FALSE]

Max(a, b) == IF a >= b THEN a ELSE b
Min(a, b) == IF a <= b THEN a ELSE b

HasLine(h) == h \in Holders /\ lines[h].exists

Balance(h) == IF HasLine(h) THEN lines[h].balance ELSE 0

NoTx == [type |-> "None", account |-> Unfunded, peer |-> Unfunded, amount |-> 0,
         arg |-> "", result |-> "Success"]

Tx(type, account, peer, amount, arg, result) ==
  [type |-> type, account |-> account, peer |-> peer, amount |-> amount,
   arg |-> arg, result |-> result]

(* A transaction mutates the ledger only when its result is Success. *)

(* mutation: a tec-class failure is applied like a success *)
AppliedOnFailure(result) == result # "NotFound"
Applied(result) == result = "Success"

(* ------------------------------ AccountSet ----------------------------- *)
SetFlagEffect(old, flag) == old \cup {flag}


(* mutation: AllowTrustLineClawback is cleared like any other flag *)
ClearFlagAny(old, flag) == old \ {flag}
(* mutation: GlobalFreeze, once set, stays set like AllowTrustLineClawback *)
ClearFlagKeepsFreeze(old, flag) ==
  IF flag \in {"AllowTrustLineClawback", "GlobalFreeze"} THEN old ELSE old \ {flag}

ClearFlagEffect(old, flag) ==
  IF flag = "AllowTrustLineClawback" THEN old ELSE old \ {flag}

AccountSet(account, flag, set) ==
  LET result == IF account \notin Accounts THEN "NotFound" ELSE "Success" IN
  /\ last' = Tx("AccountSet", account, account, 0,
                (IF set THEN "Set" ELSE "Clear") \o flag, result)
  /\ IF Applied(result)
       THEN flags' = [flags EXCEPT ![account] =
                        IF set THEN SetFlagEffect(@, flag) ELSE ClearFlagEffect(@, flag)]
       ELSE UNCHANGED flags
  /\ UNCHANGED <<xrpBalance, preauthorized, lines, checks, flow, fund, xrpl, engine>>

(* ------------------------------- TrustSet ------------------------------ *)
(* A line is kept as the holder's view plus the issuer's (peer) view:      *)
(* limit/balance/noRipple are the holder's side, limitPeer/balancePeer/    *)
(* noRipplePeer the issuer's side, authorized is granted by the issuer.    *)
TrustSetOps == {"", "SetAuth", "SetNoRipple", "ClearNoRipple"}

(* mutation: the issuer side starts with NoRipple whatever DefaultRipple says *)
DefaultNoRipplePeerAlways == TRUE

DefaultNoRipplePeer == "DefaultRipple" \notin flags[issuerWallet]

NewLine(limit) ==
  [exists |-> TRUE, limit |-> limit, limitPeer |-> 0, balance |-> 0, balancePeer |-> 0,
   noRipple |-> FALSE, noRipplePeer |-> DefaultNoRipplePeer, authorized |-> FALSE,
   clawback |-> "AllowTrustLineClawback" \in flags[issuerWallet]]

(* mutation: tfClearNoRipple leaves the flag as it was *)
NoRippleAfterKeep(old, op) == IF op = "SetNoRipple" THEN TRUE ELSE old

NoRippleAfter(old, op) ==
  IF op = "SetNoRipple" THEN TRUE ELSE IF op = "ClearNoRipple" THEN FALSE ELSE old

(* mutation: a holder's TrustSet on an existing line drops its authorization *)
HolderTrustSetReset(line, limit, op) ==
  [(IF line.exists THEN line ELSE NewLine(limit))
     EXCEPT !.limit = limit, !.authorized = FALSE]

(* mutation: a holder's TrustSet re-applies the issuer's current default *)
HolderTrustSetRedefault(line, limit, op) ==
  [(IF line.exists THEN line ELSE NewLine(limit))
     EXCEPT !.limit = limit, !.noRipple = NoRippleAfter(@, op),
            !.noRipplePeer = DefaultNoRipplePeer]

HolderTrustSet(line, limit, op) ==
  LET base == IF line.exists THEN line ELSE NewLine(limit) IN
  [base EXCEPT !.limit = limit, !.noRipple = NoRippleAfter(@, op)]

(* mutation: the issuer's TrustSet writes its limit over the holder's *)
IssuerTrustSetOverwrites(line, limit, op) ==
  [(IF line.exists THEN line ELSE NewLine(0))
     EXCEPT !.limit = limit, !.limitPeer = limit,
            !.noRipplePeer = NoRippleAfter(@, op),
            !.authorized = @ \/ op = "SetAuth"]

IssuerTrustSet(line, limit, op) ==
  LET base == IF line.exists THEN line ELSE NewLine(0) IN
  [base EXCEPT !.limitPeer = limit,
               !.noRipplePeer = NoRippleAfter(@, op),
               !.authorized = @ \/ op = "SetAuth"]

TrustSetResult(account, peer, op) ==
  IF account \notin Accounts \/ peer \notin Accounts THEN "NotFound"
  ELSE IF account \in Holders /\ op = "SetAuth" THEN "NoPermission"
  ELSE "Success"

TrustSet(account, peer, limit, op) ==
  LET result == TrustSetResult(account, peer, op)
      holder == IF account = issuerWallet THEN peer ELSE account IN
  /\ {account, peer} \cap {issuerWallet} # {}
  /\ account # peer
  /\ last' = Tx("TrustSet", account, peer, limit, op, result)
  /\ IF Applied(result)
       THEN lines' = [lines EXCEPT ![holder] =
                        IF account = issuerWallet
                          THEN IssuerTrustSet(@, limit, op)
                          ELSE HolderTrustSet(@, limit, op)]
       ELSE UNCHANGED lines
  /\ UNCHANGED <<flags, xrpBalance, preauthorized, checks, flow, fund, xrpl, engine>>

(* ------------------------- PaymentPathEvaluator ------------------------ *)

(* mutation: the documented tecNO_AUTH instead of the asserted tecPATH_DRY *)
UnauthorizedResultNoAuth == "NoAuth"
UnauthorizedResult == "PathDry"


(* mutation: authorization is demanded whether or not RequireAuth is set *)
DestinationLineOkSticky(destination) ==
  \/ destination = issuerWallet
  \/ HasLine(destination) /\ lines[destination].authorized
DestinationLineOk(destination) ==
  \/ destination = issuerWallet
  \/ /\ HasLine(destination)
     /\ "RequireAuth" \in flags[issuerWallet] => lines[destination].authorized


(* mutation: GlobalFreeze without the issuer exemption *)
FrozenPathAll(source, destination) == "GlobalFreeze" \in flags[issuerWallet]
FrozenPath(source, destination) ==
  /\ "GlobalFreeze" \in flags[issuerWallet]
  /\ source # issuerWallet
  /\ destination # issuerWallet

(* mutation: NoRipple on one of the two lines is enough to block the path *)
RipplingBlockedEither(source, destination) ==
  /\ source # issuerWallet
  /\ destination # issuerWallet
  /\ HasLine(source)
  /\ HasLine(destination)
  /\ lines[source].noRipplePeer \/ lines[destination].noRipplePeer

(* mutation: the issuer's NoRipple also blocks mints and redeems on a line *)
RipplingBlockedDirect(source, destination) ==
  \E h \in {source, destination} \cap Holders : HasLine(h) /\ lines[h].noRipplePeer

(* A payment between two holders ripples through the issuer; the issuer's  *)
(* NoRipple blocks it only when set on both lines.                         *)
RipplingBlocked(source, destination) ==
  /\ source # issuerWallet
  /\ destination # issuerWallet
  /\ HasLine(source)
  /\ HasLine(destination)
  /\ lines[source].noRipplePeer
  /\ lines[destination].noRipplePeer


(* mutation: the sender's own DepositAuth is consulted *)
DepositBlockedBySource(source, destination) ==
  /\ "DepositAuth" \in flags[source] \cup flags[destination]
  /\ source # destination
  /\ source \notin preauthorized[destination]
(* mutation: the issuer is exempt from the destination's DepositAuth *)
DepositBlockedExceptIssuer(source, destination) ==
  /\ "DepositAuth" \in flags[destination]
  /\ source \notin {destination, issuerWallet}
  /\ source \notin preauthorized[destination]

DepositBlocked(source, destination) ==
  /\ "DepositAuth" \in flags[destination]
  /\ source # destination
  /\ source \notin preauthorized[destination]

(* mutation: a native payment may spend the sender's reserve *)
AmountResultNoReserve(source, destination, currency, amount) ==
  IF currency = XRP
    THEN IF xrpBalance[source] - amount < 0 THEN "InsufficientReserve"
         ELSE "Success"
  ELSE IF source # issuerWallet /\ Balance(source) < amount THEN "InsufficientLimit"
  ELSE IF destination # issuerWallet
          /\ lines[destination].balance + amount > lines[destination].limit
         THEN "InsufficientLimit"
  ELSE "Success"

(* mutation: the receiver's trust-line limit is not consulted *)
AmountResultNoLimit(source, destination, currency, amount) ==
  IF currency = XRP
    THEN IF xrpBalance[source] - amount < ReserveFloor THEN "InsufficientReserve"
         ELSE "Success"
  ELSE IF source # issuerWallet /\ Balance(source) < amount THEN "InsufficientLimit"
  ELSE "Success"

(* mutation: a token payment is bounded by the receiver's limit only *)
AmountResultLimitOnly(source, destination, currency, amount) ==
  IF currency = XRP
    THEN IF xrpBalance[source] - amount < ReserveFloor THEN "InsufficientReserve"
         ELSE "Success"
  ELSE IF destination # issuerWallet
          /\ lines[destination].balance + amount > lines[destination].limit
         THEN "InsufficientLimit"
  ELSE "Success"

AmountResult(source, destination, currency, amount) ==
  IF currency = XRP
    THEN IF xrpBalance[source] - amount < ReserveFloor THEN "InsufficientReserve"
         ELSE "Success"
  ELSE IF source # issuerWallet /\ Balance(source) < amount THEN "InsufficientLimit"
  ELSE IF destination # issuerWallet
          /\ lines[destination].balance + amount > lines[destination].limit
         THEN "InsufficientLimit"
  ELSE "Success"

(* mutation: DisallowXRP on the destination refuses native payments *)
DisallowXrpDenies(destination) == "DisallowXRP" \in flags[destination]

(* DisallowXRP is advisory: the ledger does not enforce it. *)
DisallowXrpBlocks(destination) == FALSE

(* mutation: the deposit check is skipped for native XRP *)
DepositCheckedForTokensOnly(currency) == currency # XRP

(* The destination's DepositAuth is consulted for XRP and tokens alike. *)
DepositCheckedFor(currency) == TRUE

(* mutation: a check cash is gated by DepositAuth like a direct payment *)
DepositCheckAlways(cashing) == TRUE

(* The destination's DepositAuth is not consulted when it cashes a check. *)
DepositCheckApplies(cashing) == ~cashing

canPay(source, destination, currency, amount, cashing) ==
  IF currency = CURRENCY /\ ~DestinationLineOk(destination) THEN UnauthorizedResult
  ELSE IF currency = CURRENCY /\ FrozenPath(source, destination) THEN "PathDry"
  ELSE IF currency = CURRENCY /\ RipplingBlocked(source, destination) THEN "PathDry"
  ELSE IF /\ DepositCheckApplies(cashing)
          /\ DepositCheckedFor(currency)
          /\ DepositBlocked(source, destination)
    THEN "NoPermission"
  ELSE IF currency = XRP /\ DisallowXrpBlocks(destination) THEN "NoPermission"
  ELSE AmountResult(source, destination, currency, amount)

(* ------------------------------- Payment ------------------------------- *)
(* mutation: only the holder's view of the balance is debited *)
DebitOneSided(line, amount) == [line EXCEPT !.balance = @ - amount]

Debit(line, amount) ==
  [line EXCEPT !.balance = @ - amount, !.balancePeer = @ + amount]

(* mutation: a transfer fee of one unit is withheld from the receiver *)
CreditAfterFee(line, amount) ==
  [line EXCEPT !.balance = @ + amount - 1, !.balancePeer = @ - amount + 1]

Credit(line, amount) ==
  [line EXCEPT !.balance = @ + amount, !.balancePeer = @ - amount]

(* mutation: the receiver is credited without debiting the sender *)
adjustBalanceCreditOnly(from, to, amount) ==
  [h \in Holders |-> IF h = to THEN Credit(lines[h], amount) ELSE lines[h]]

adjustBalance(from, to, amount) ==
  [h \in Holders |->
     IF h = from THEN Debit(lines[h], amount)
     ELSE IF h = to THEN Credit(lines[h], amount)
     ELSE lines[h]]

PaymentResult(account, destination, currency, amount) ==
  IF account \notin Accounts \/ destination \notin Accounts THEN "NotFound"
  ELSE canPay(account, destination, currency, amount, FALSE)

Payment(account, destination, currency, amount) ==
  LET result == PaymentResult(account, destination, currency, amount) IN
  /\ account # destination
  /\ amount > 0
  /\ last' = Tx("Payment", account, destination, amount, currency, result)
  /\ IF Applied(result) /\ currency = CURRENCY
       THEN lines' = adjustBalance(account, destination, amount)
       ELSE UNCHANGED lines
  /\ IF Applied(result) /\ currency = XRP
       THEN xrpBalance' = [xrpBalance EXCEPT ![account] = @ - amount,
                                             ![destination] = @ + amount]
       ELSE UNCHANGED xrpBalance
  /\ UNCHANGED <<flags, preauthorized, checks, flow, fund, xrpl, engine>>

(* ------------------------------- Clawback ------------------------------ *)

(* mutation: the requested amount is taken without clamping *)
ClawedAmountUnclamped(requested, held) == requested
ClawedAmount(requested, held) == Min(requested, held)

(* mutation: any funded account may claw back from a holder's line *)
ClawbackResultAnyone(account, holder) ==
  IF account \notin Accounts \/ holder \notin Accounts THEN "NotFound"
  ELSE IF holder \notin Holders THEN "NoPermission"
  ELSE IF ~HasLine(holder) THEN "NoEntry"
  ELSE IF ~lines[holder].clawback THEN "NoPermission"
  ELSE "Success"

(* mutation: the issuer's current flag decides, not the line's snapshot *)
ClawbackResultCurrentFlag(account, holder) ==
  IF account \notin Accounts \/ holder \notin Accounts THEN "NotFound"
  ELSE IF account # issuerWallet THEN "NoPermission"
  ELSE IF ~HasLine(holder) THEN "NoEntry"
  ELSE IF "AllowTrustLineClawback" \notin flags[issuerWallet] THEN "NoPermission"
  ELSE "Success"

ClawbackResult(account, holder) ==
  IF account \notin Accounts \/ holder \notin Accounts THEN "NotFound"
  ELSE IF account # issuerWallet THEN "NoPermission"
  ELSE IF ~HasLine(holder) THEN "NoEntry"
  ELSE IF ~lines[holder].clawback THEN "NoPermission"
  ELSE "Success"

Clawback(account, holder, amount) ==
  LET result == ClawbackResult(account, holder) IN
  /\ account # holder
  /\ amount > 0
  /\ last' = Tx("Clawback", account, holder, amount, "", result)
  /\ IF Applied(result)
       THEN lines' = [lines EXCEPT ![holder] =
                        Debit(@, ClawedAmount(amount, lines[holder].balance))]
       ELSE UNCHANGED lines
  /\ UNCHANGED <<flags, xrpBalance, preauthorized, checks, flow, fund, xrpl, engine>>

(* ---------------------------- DepositPreauth --------------------------- *)
(* mutation: an authorization, once given, is never removed *)
PreauthEffectSticky(old, who, authorize) == IF authorize THEN old \cup {who} ELSE old

PreauthEffect(old, who, authorize) ==
  IF authorize THEN old \cup {who} ELSE old \ {who}

DepositPreauth(account, who, authorize) ==
  LET result == IF account \notin Accounts \/ who \notin Accounts THEN "NotFound"
                ELSE "Success" IN
  /\ account # who
  /\ last' = Tx("DepositPreauth", account, who, 0,
                IF authorize THEN "Authorize" ELSE "Unauthorize", result)
  /\ IF Applied(result)
       THEN preauthorized' = [preauthorized EXCEPT ![account] =
                                PreauthEffect(@, who, authorize)]
       ELSE UNCHANGED preauthorized
  /\ UNCHANGED <<flags, xrpBalance, lines, checks, flow, fund, xrpl, engine>>

(* ------------------------------ CheckLedger ---------------------------- *)

(* mutation: any existing check counts as cashable, whatever its status *)
CheckExists(checkId) == checkId \in DOMAIN checks
IsOpen(checkId) == checkId \in DOMAIN checks /\ checks[checkId].status = "Open"

CheckCreate(account, destination, maxAmount) ==
  LET result == IF account \notin Accounts \/ destination \notin Accounts THEN "NotFound"
                ELSE "Success" IN
  /\ account # destination
  /\ maxAmount > 0
  /\ Len(checks) < MaxChecks
  /\ last' = Tx("CheckCreate", account, destination, maxAmount, "", result)
  /\ IF Applied(result)
       THEN checks' = Append(checks, [creator |-> account, destination |-> destination,
                                      maxAmount |-> maxAmount, status |-> "Open"])
       ELSE UNCHANGED checks
  /\ UNCHANGED <<flags, xrpBalance, preauthorized, lines, flow, fund, xrpl, engine>>

CheckCashResult(account, checkId, amount) ==
  IF account \notin Accounts THEN "NotFound"
  ELSE IF ~IsOpen(checkId) THEN "NoEntry"
  ELSE IF account # checks[checkId].destination THEN "NoPermission"
  ELSE IF amount > checks[checkId].maxAmount THEN "InsufficientLimit"
  ELSE canPay(checks[checkId].creator, checks[checkId].destination, CURRENCY, amount, TRUE)

CheckCash(account, checkId, amount) ==
  LET result == CheckCashResult(account, checkId, amount) IN
  /\ amount > 0
  /\ last' = Tx("CheckCash", account, account, amount, ToString(checkId), result)
  /\ IF Applied(result)
       THEN /\ lines' = adjustBalance(checks[checkId].creator,
                                      checks[checkId].destination, amount)
            /\ checks' = [checks EXCEPT ![checkId].status = "Cashed"]
       ELSE UNCHANGED <<lines, checks>>
  /\ UNCHANGED <<flags, xrpBalance, preauthorized, flow, fund, xrpl, engine>>

(* mutation: only the creator may cancel *)
MayCancelCreatorOnly(account, checkId) == account = checks[checkId].creator

(* Both parties of a check may cancel it. *)
MayCancel(account, checkId) ==
  account \in {checks[checkId].creator, checks[checkId].destination}

CheckCancelResult(account, checkId) ==
  IF account \notin Accounts THEN "NotFound"
  ELSE IF ~IsOpen(checkId) THEN "NoEntry"
  ELSE IF ~MayCancel(account, checkId) THEN "NoPermission"
  ELSE "Success"

CheckCancel(account, checkId) ==
  LET result == CheckCancelResult(account, checkId) IN
  /\ last' = Tx("CheckCancel", account, account, 0, ToString(checkId), result)
  /\ IF Applied(result)
       THEN checks' = [checks EXCEPT ![checkId].status = "Canceled"]
       ELSE UNCHANGED checks
  /\ UNCHANGED <<flags, xrpBalance, preauthorized, lines, flow, fund, xrpl, engine>>

(* ----------------------------- xrpl.config ----------------------------- *)
(* xrpl keeps the module-level client: whether one has been created,       *)
(* whether it is connected, whether a caller holds a reference to it, the  *)
(* position of an initializeXRPLClient call across its await, and the      *)
(* last operation with its outcome.                                        *)
NoClient == [client |-> FALSE, connected |-> FALSE, held |-> FALSE, pc |-> "idle",
             op |-> "none", outcome |-> "none"]

(* the state the integration flows run in: beforeAll has awaited           *)
(* initializeXRPLClient and taken the client                               *)
ClientReady == [client |-> TRUE, connected |-> TRUE, held |-> TRUE, pc |-> "idle",
                op |-> "getXRPLClient", outcome |-> "returned"]

(* mutation: a created client counts as usable *)
isConnectedCreated == xrpl.client

(* client?.isConnected() *)
isConnected == xrpl.client /\ xrpl.connected

NotConnected == "XRPL client not initialized or connected"

(* initializeXRPLClient up to its await: a new Client replaces the old one *)
initializeXRPLClient ==
  /\ xrpl.pc = "idle"
  /\ xrpl' = [client |-> TRUE, connected |-> FALSE, held |-> FALSE, pc |-> "connecting",
              op |-> "initializeXRPLClient", outcome |-> "pending"]

(* client.connect() settles: the call resolves, or logs and rethrows *)
clientConnect(ok) ==
  /\ xrpl.pc = "connecting"
  /\ xrpl' = [xrpl EXCEPT !.connected = ok, !.pc = "idle",
                          !.op = "initializeXRPLClient",
                          !.outcome = IF ok THEN "resolved" ELSE "rejected"]

getXRPLClient ==
  xrpl' = IF isConnected
            THEN [xrpl EXCEPT !.held = TRUE, !.op = "getXRPLClient", !.outcome = "returned"]
            ELSE [xrpl EXCEPT !.op = "getXRPLClient", !.outcome = "thrown"]

disconnectXRPLClient ==
  xrpl' = [xrpl EXCEPT !.connected = IF isConnected THEN FALSE ELSE @,
                       !.op = "disconnectXRPLClient", !.outcome = "resolved"]

(* client.disconnect() by a caller holding the client *)
clientDisconnect ==
  /\ xrpl.held
  /\ xrpl' = [xrpl EXCEPT !.connected = FALSE, !.op = "client.disconnect",
                          !.outcome = "resolved"]

(* ----------------------------- fund.service ---------------------------- *)
(* fundWallet(wallet, {amount}) runs as a sequence of steps separated by   *)
(* its network awaits; fund keeps the target account, the fund wallet, the *)
(* stored mnemonic and, per caller, the position of its call.  Amounts are *)
(* whole XRP; 0 stands for any amount below 1 XRP.                         *)
XRP_MINIMUM == 2      \* XRP_MINIMUM_DROPS, in XRP
MinFundXrp == 1
MaxFundXrp == 100
FaucetXrp == 100      \* client.fundWallet(fundWallet, { amount: '100' })

Callers == {"first", "second"}

NoAccount == [exists |-> FALSE, balance |-> 0]
Account(balance) == [exists |-> TRUE, balance |-> balance]

NoCall == [pc |-> "idle", amount |-> 0, targetExists |-> TRUE, fundReads |-> 0,
           faucetCalls |-> 0, payments |-> 0, error |-> ""]

FundIdle == [target |-> NoAccount, wallet |-> NoAccount, mnemonic |-> FALSE,
             calls |-> [c \in Callers |-> NoCall]]

(* mutation: the receiver gets one XRP less than was sent *)
CreditedShort(account, amount) == [exists |-> TRUE, balance |-> account.balance + amount - 1]

(* A validated XRP payment creates the receiving account if needed and     *)
(* adds exactly the amount to its balance.                                 *)
Credited(account, amount) == Account(account.balance + amount)

Throw(call, message) == [call EXCEPT !.pc = "thrown", !.error = message]

AmountInRange(amount) == amount >= MinFundXrp /\ amount <= MaxFundXrp

(* mutation: the target's balance is never found sufficient *)
SufficientTargetNever(target, amount) == FALSE

SufficientTarget(target, amount) == target.exists /\ target.balance >= amount

(* mutation: the fund wallet is topped up only when it cannot cover the amount *)
NeedsFaucetNoReserve(wallet, amount) ==
  ~wallet.exists \/ wallet.balance < amount

NeedsFaucet(wallet, amount) ==
  ~wallet.exists \/ wallet.balance < amount + XRP_MINIMUM

(* mutation: the mnemonic is ensured before the amount is checked *)
fundWalletStartMnemonicFirst(c, amount) ==
  /\ fund.calls[c].pc = "idle"
  /\ IF AmountInRange(amount)
       THEN fund' = [fund EXCEPT !.mnemonic = TRUE,
                                 !.calls[c] =
                       IF isConnected
                         THEN [@ EXCEPT !.pc = "readTarget", !.amount = amount]
                         ELSE Throw([@ EXCEPT !.amount = amount], NotConnected)]
       ELSE fund' = [fund EXCEPT !.mnemonic = TRUE,
                                 !.calls[c] =
                       Throw([@ EXCEPT !.amount = amount],
                             "Amount must be between 1 and 100 XRP")]

(* amount check, ensureFundMnemonic, getXRPLClient, then the account_info  *)
(* request for the target is sent                                          *)
fundWalletStart(c, amount) ==
  /\ fund.calls[c].pc = "idle"
  /\ IF AmountInRange(amount)
       THEN fund' = [fund EXCEPT !.mnemonic = TRUE,
                                 !.calls[c] =
                       IF isConnected
                         THEN [@ EXCEPT !.pc = "readTarget", !.amount = amount]
                         ELSE Throw([@ EXCEPT !.amount = amount], NotConnected)]
       ELSE fund' = [fund EXCEPT !.calls[c] =
                       Throw([@ EXCEPT !.amount = amount],
                             "Amount must be between 1 and 100 XRP")]

(* the target's account_info answers (failed: an error other than          *)
(* actNotFound); a sufficient target ends the call, otherwise the fund     *)
(* wallet's account_info is requested                                      *)
fundWalletTargetInfo(c, failed) ==
  LET call == fund.calls[c] IN
  /\ call.pc = "readTarget"
  /\ fund' = [fund EXCEPT !.calls[c] =
                IF failed THEN Throw(call, "account_info")
                ELSE IF SufficientTarget(fund.target, call.amount)
                  THEN [call EXCEPT !.pc = "returned"]
                ELSE [call EXCEPT !.pc = "readFund",
                                  !.targetExists = fund.target.exists]]

(* the fund wallet's account_info answers; the faucet is requested when    *)
(* the wallet is missing or holds less than amount + reserve               *)
fundWalletFundInfo(c, failed) ==
  LET call == fund.calls[c] IN
  /\ call.pc = "readFund"
  /\ fund' = [fund EXCEPT !.calls[c] =
                IF failed THEN Throw([call EXCEPT !.fundReads = @ + 1], "account_info")
                ELSE [call EXCEPT !.fundReads = @ + 1,
                                  !.pc = IF NeedsFaucet(fund.wallet, call.amount)
                                           THEN "faucet" ELSE "submit"]]

(* client.fundWallet: the faucet credits the fund wallet, creating it if   *)
(* needed; the balance is then requested again                             *)
fundWalletFaucet(c, failed) ==
  LET call == fund.calls[c] IN
  /\ call.pc = "faucet"
  /\ IF failed
       THEN fund' = [fund EXCEPT !.calls[c] =
                       Throw([call EXCEPT !.faucetCalls = @ + 1], "faucet")]
       ELSE fund' = [fund EXCEPT !.wallet = Credited(@, FaucetXrp),
                                 !.calls[c].faucetCalls = @ + 1,
                                 !.calls[c].pc = "reread"]

(* the updated balance answers; still short of amount + reserve throws     *)
fundWalletUpdatedInfo(c, failed) ==
  LET call == fund.calls[c] IN
  /\ call.pc = "reread"
  /\ fund' = [fund EXCEPT !.calls[c] =
                IF failed THEN Throw([call EXCEPT !.fundReads = @ + 1], "account_info")
                ELSE IF fund.wallet.balance < call.amount + XRP_MINIMUM
                  THEN Throw([call EXCEPT !.fundReads = @ + 1],
                             "Still insufficient balance after auto-funding")
                ELSE [call EXCEPT !.fundReads = @ + 1, !.pc = "submit"]]

(* mutation: the Payment's TransactionResult is not looked at *)
fundWalletSubmitUnchecked(c, failed) ==
  LET call == fund.calls[c] IN
  /\ call.pc = "submit"
  /\ ~failed => (fund.wallet.exists /\ fund.wallet.balance >= call.amount)
  /\ IF failed
       THEN fund' = [fund EXCEPT !.calls[c].payments = @ + 1,
                                 !.calls[c].pc = "returned"]
       ELSE fund' = [fund EXCEPT !.wallet.balance = @ - call.amount,
                                 !.target = Credited(@, call.amount),
                                 !.calls[c].payments = @ + 1,
                                 !.calls[c].pc = "returned"]

(* autofill, sign, submitAndWait: the Payment is validated with tesSUCCESS *)
(* (possible only if the wallet can pay it) or with another result         *)
fundWalletSubmit(c, failed) ==
  LET call == fund.calls[c] IN
  /\ call.pc = "submit"
  /\ ~failed => (fund.wallet.exists /\ fund.wallet.balance >= call.amount)
  /\ IF failed
       THEN fund' = [fund EXCEPT !.calls[c] =
                       Throw([call EXCEPT !.payments = @ + 1], "Transfer failed")]
       ELSE fund' = [fund EXCEPT !.wallet.balance = @ - call.amount,
                                 !.target = Credited(@, call.amount),
                                 !.calls[c].payments = @ + 1,
                                 !.calls[c].pc = "returned"]

(* ----------------------------- LedgerEngine ---------------------------- *)
(* apply takes one submitted transaction at a time through validate and    *)
(* mutate.  lines is the state as of the last completed transaction;       *)
(* engine.working is the store while apply mutates it, one entity at a     *)
(* time; engine.pending holds what each submitter has handed in;           *)
(* engine.seen is what a read made in the last step returned.  last is the *)
(* transaction whose result the step returned: none but at completion.     *)
NoRequest == [type |-> "None", account |-> "unfunded", peer |-> "unfunded", amount |-> 0]
Request(type, account, peer, amount) ==
  [type |-> type, account |-> account, peer |-> peer, amount |-> amount]

Snapshot(store) == [h \in Holders |-> store[h].balance]

NoSnapshot == [h \in Holders |-> -1]

EngineIdle ==
  [phase |-> "idle", owner |-> "first", result |-> "",
   pending |-> [s \in Callers |-> NoRequest],
   working |-> [h \in Holders |-> NoLine],
   seen |-> NoSnapshot]

(* the store as a reader finds it *)
Store == IF engine.phase = "idle" THEN lines ELSE engine.working

Current == engine.pending[engine.owner]

(* mutation: reads are served while a transaction is being applied *)
ReadAdmittedAlways == TRUE

(* reads share the lock of apply: none is served mid-transaction *)
ReadAdmitted == engine.phase = "idle"

engineSubmit(s, req) ==
  /\ engine.pending[s] = NoRequest
  /\ engine' = [engine EXCEPT !.pending[s] = req, !.seen = NoSnapshot]
  /\ last' = NoTx
  /\ UNCHANGED ledger

(* the lock is taken: the next transaction is accepted only when the       *)
(* previous one has completed                                              *)
engineAccept(s) ==
  /\ engine.phase = "idle"
  /\ engine.pending[s] # NoRequest
  /\ engine' = [engine EXCEPT !.phase = "validate", !.owner = s, !.working = lines,
                          !.seen = NoSnapshot]
  /\ last' = NoTx
  /\ UNCHANGED ledger

RequestResult(req) ==
  IF req.type = "Payment" THEN PaymentResult(req.account, req.peer, CURRENCY, req.amount)
  ELSE TrustSetResult(req.account, req.peer, "")

EngineValidate ==
  /\ flow = "engine"
  /\ engine.phase = "validate"
  /\ LET result == RequestResult(Current) IN
     engine' = [engine EXCEPT !.result = result, !.seen = NoSnapshot,
                              !.phase = IF Applied(result) THEN "mutate" ELSE "commit"]
  /\ last' = NoTx
  /\ UNCHANGED ledger
  /\ UNCHANGED <<flow, fund, xrpl>>

(* mutate, first entity: the sender's line of a Payment *)
EngineDebit ==
  /\ flow = "engine"
  /\ engine.phase = "mutate"
  /\ Current.type = "Payment"
  /\ engine' = [engine EXCEPT
                  !.phase = "credit", !.seen = NoSnapshot,
                  !.working = [h \in Holders |->
                                 IF h = Current.account THEN Debit(@[h], Current.amount)
                                 ELSE @[h]]]
  /\ last' = NoTx
  /\ UNCHANGED ledger
  /\ UNCHANGED <<flow, fund, xrpl>>

(* mutate, second entity: the receiver's line of a Payment *)
EngineCredit ==
  /\ flow = "engine"
  /\ engine.phase = "credit"
  /\ engine' = [engine EXCEPT
                  !.phase = "commit", !.seen = NoSnapshot,
                  !.working = [h \in Holders |->
                                 IF h = Current.peer THEN Credit(@[h], Current.amount)
                                 ELSE @[h]]]
  /\ last' = NoTx
  /\ UNCHANGED ledger
  /\ UNCHANGED <<flow, fund, xrpl>>

EngineTrustSet ==
  /\ flow = "engine"
  /\ engine.phase = "mutate"
  /\ Current.type = "TrustSet"
  /\ engine' = [engine EXCEPT
                  !.phase = "commit", !.seen = NoSnapshot,
                  !.working[Current.account] = HolderTrustSet(@, Current.amount, "")]
  /\ last' = NoTx
  /\ UNCHANGED ledger
  /\ UNCHANGED <<flow, fund, xrpl>>

(* apply completes: the result is returned and the lock released *)
EngineCommit ==
  /\ flow = "engine"
  /\ engine.phase = "commit"
  /\ lines' = IF Applied(engine.result) THEN engine.working ELSE lines
  /\ last' = Tx(Current.type, Current.account, Current.peer, Current.amount,
                (IF Current.type = "Payment" THEN CURRENCY ELSE ""), engine.result)
  /\ engine' = [engine EXCEPT !.phase = "idle", !.pending[engine.owner] = NoRequest,
                          !.seen = NoSnapshot]
  /\ UNCHANGED <<flags, xrpBalance, preauthorized, checks>>
  /\ UNCHANGED <<flow, fund, xrpl>>

(* get account / get trust lines *)
EngineRead ==
  /\ flow = "engine"
  /\ ReadAdmitted
  /\ engine' = [engine EXCEPT !.seen = Snapshot(Store)]
  /\ last' = NoTx
  /\ UNCHANGED ledger
  /\ UNCHANGED <<flow, fund, xrpl>>

(* ------------------------------- Init ---------------------------------- *)
(* flow names the integration flow being run; each flow starts from freshly *)
(* funded wallets and submits its own kinds of transactions.               *)
Funded(name, issuerFlags) ==
  /\ flow = name
  /\ fund = FundIdle
  /\ xrpl = ClientReady
  /\ engine = EngineIdle
  /\ flags = [a \in Accounts |-> IF a = issuerWallet THEN issuerFlags ELSE {}]
  /\ xrpBalance = [a \in Accounts |-> StartXrp]
  /\ preauthorized = [a \in Accounts |-> {}]
  /\ lines = [h \in Holders |-> NoLine]
  /\ checks = <<>>
  /\ last = NoTx

Amounts == 1..MaxAmount
CheckIds == 1..(MaxChecks + 1)

OpenLine == \E h \in Holders : TrustSet(h, issuerWallet, MaxLimit, "")
TokenPayment ==
  \E src \in Accounts, dst \in Accounts, amt \in Amounts : Payment(src, dst, CURRENCY, amt)

(* ------------------------ require-auth flow ---------------------------- *)
InitAuth == Funded("require-auth", {"DefaultRipple"})
AuthAccountSet ==
  /\ flow = "require-auth"
  /\ \E s \in BOOLEAN : AccountSet(issuerWallet, "RequireAuth", s)
AuthOpenLine == flow = "require-auth" /\ OpenLine
AuthAuthorize ==
  /\ flow = "require-auth"
  /\ \E h \in Holders : TrustSet(issuerWallet, h, 0, "SetAuth")
AuthHolderSetAuth ==
  /\ flow = "require-auth"
  /\ \E h \in Holders : TrustSet(h, issuerWallet, MaxLimit, "SetAuth")
AuthPayment == flow = "require-auth" /\ TokenPayment
NextAuth ==
  \/ AuthAccountSet \/ AuthOpenLine \/ AuthAuthorize \/ AuthHolderSetAuth
  \/ AuthPayment
SpecAuth == InitAuth /\ [][NextAuth]_vars

(* ------------------------ global-freeze flow --------------------------- *)
InitFreeze == Funded("global-freeze", {"DefaultRipple"})
FreezeAccountSet ==
  /\ flow = "global-freeze"
  /\ \E s \in BOOLEAN : AccountSet(issuerWallet, "GlobalFreeze", s)
FreezeOpenLine == flow = "global-freeze" /\ OpenLine
FreezePayment == flow = "global-freeze" /\ TokenPayment
NextFreeze == FreezeAccountSet \/ FreezeOpenLine \/ FreezePayment
SpecFreeze == InitFreeze /\ [][NextFreeze]_vars

(* ------------------------ deposit-auth flow ---------------------------- *)
InitDeposit == Funded("deposit-auth", {"DefaultRipple"})
DepositAccountSet ==
  /\ flow = "deposit-auth"
  /\ \E h \in Holders, s \in BOOLEAN : AccountSet(h, "DepositAuth", s)
DepositOpenLine == flow = "deposit-auth" /\ OpenLine
DepositPreauthorize ==
  /\ flow = "deposit-auth"
  /\ \E who \in {aliceWallet, issuerWallet}, s \in BOOLEAN :
       DepositPreauth(bobWallet, who, s)
DepositTokenPayment == flow = "deposit-auth" /\ TokenPayment
DepositXrpPayment ==
  /\ flow = "deposit-auth"
  /\ \E src \in Holders, dst \in Holders, amt \in Amounts : Payment(src, dst, XRP, amt)
NextDeposit ==
  \/ DepositAccountSet \/ DepositOpenLine \/ DepositPreauthorize
  \/ DepositTokenPayment \/ DepositXrpPayment
SpecDeposit == InitDeposit /\ [][NextDeposit]_vars

(* -------------------- deposit-auth-check-flow -------------------------- *)
InitDepositCheck == Funded("deposit-auth-check-flow", {})
DepositCheckAccountSet ==
  /\ flow = "deposit-auth-check-flow"
  /\ \E s \in BOOLEAN : AccountSet(bobWallet, "DepositAuth", s)
DepositCheckOpenLine == flow = "deposit-auth-check-flow" /\ OpenLine
DepositCheckClearNoRipple ==
  /\ flow = "deposit-auth-check-flow"
  /\ TrustSet(issuerWallet, bobWallet, 0, "ClearNoRipple")
DepositCheckPayment ==
  /\ flow = "deposit-auth-check-flow"
  /\ \E dst \in Holders, amt \in Amounts :
       Payment(IF dst = aliceWallet THEN issuerWallet ELSE aliceWallet, dst, CURRENCY, amt)
DepositCheckCreate ==
  /\ flow = "deposit-auth-check-flow"
  /\ \E amt \in Amounts : CheckCreate(aliceWallet, bobWallet, amt)
DepositCheckCash ==
  /\ flow = "deposit-auth-check-flow"
  /\ \E id \in CheckIds, amt \in Amounts : CheckCash(bobWallet, id, amt)
NextDepositCheck ==
  \/ DepositCheckAccountSet \/ DepositCheckOpenLine \/ DepositCheckClearNoRipple
  \/ DepositCheckPayment \/ DepositCheckCreate \/ DepositCheckCash
SpecDepositCheck == InitDepositCheck /\ [][NextDepositCheck]_vars

(* ------------------------------ check flow ----------------------------- *)
InitCheck == Funded("check", {"DefaultRipple"})
CheckOpenLine == flow = "check" /\ OpenLine
CheckMint ==
  /\ flow = "check"
  /\ \E amt \in Amounts : Payment(issuerWallet, aliceWallet, CURRENCY, amt)
CheckCreation ==
  /\ flow = "check"
  /\ \E amt \in Amounts : CheckCreate(aliceWallet, bobWallet, amt)
CheckCashing ==
  /\ flow = "check"
  /\ \E a \in Addresses, id \in CheckIds, amt \in Amounts : CheckCash(a, id, amt)
CheckCanceling ==
  /\ flow = "check"
  /\ \E a \in Addresses, id \in CheckIds : CheckCancel(a, id)
NextCheck == CheckOpenLine \/ CheckMint \/ CheckCreation \/ CheckCashing \/ CheckCanceling
SpecCheck == InitCheck /\ [][NextCheck]_vars

(* ------------------- allow-trustline-clawback flow --------------------- *)
InitClawback == Funded("allow-trustline-clawback", {"DefaultRipple"})
ClawbackAccountSet ==
  /\ flow = "allow-trustline-clawback"
  /\ \E a \in {issuerWallet, aliceWallet}, s \in BOOLEAN :
       AccountSet(a, "AllowTrustLineClawback", s)
ClawbackOpenLine == flow = "allow-trustline-clawback" /\ OpenLine
ClawbackPayment == flow = "allow-trustline-clawback" /\ TokenPayment
ClawbackSubmit ==
  /\ flow = "allow-trustline-clawback"
  /\ \E a \in Addresses, h \in Addresses, amt \in Amounts : Clawback(a, h, amt)
NextClawback == ClawbackAccountSet \/ ClawbackOpenLine \/ ClawbackPayment \/ ClawbackSubmit
SpecClawback == InitClawback /\ [][NextClawback]_vars


(* --------------------------- disallow-xrp flow ------------------------- *)
InitDisallow == Funded("disallow-xrp", {})
DisallowAccountSet ==
  /\ flow = "disallow-xrp"
  /\ \E a \in Accounts, s \in BOOLEAN : AccountSet(a, "DisallowXRP", s)
DisallowDepositAuth ==
  /\ flow = "disallow-xrp"
  /\ \E s \in BOOLEAN : AccountSet(bobWallet, "DepositAuth", s)
DisallowXrpPayment ==
  /\ flow = "disallow-xrp"
  /\ \E src \in Addresses, dst \in Accounts, amt \in Amounts : Payment(src, dst, XRP, amt)
NextDisallow == DisallowAccountSet \/ DisallowDepositAuth \/ DisallowXrpPayment
SpecDisallow == InitDisallow /\ [][NextDisallow]_vars

(* --------------------------- default-ripple flow ----------------------- *)
Limits == 1..MaxLimit

InitRipple == Funded("default-ripple", {})
RippleAccountSet ==
  /\ flow = "default-ripple"
  /\ \E s \in BOOLEAN : AccountSet(issuerWallet, "DefaultRipple", s)
RippleOpenLine ==
  /\ flow = "default-ripple"
  /\ \E h \in Holders, limit \in Limits : TrustSet(h, issuerWallet, limit, "")
RippleNoRipple ==
  /\ flow = "default-ripple"
  /\ \E h \in Holders, op \in {"SetNoRipple", "ClearNoRipple"} :
       /\ HasLine(h)
       /\ TrustSet(issuerWallet, h, 0, op)
RipplePayment == flow = "default-ripple" /\ TokenPayment
NextRipple == RippleAccountSet \/ RippleOpenLine \/ RippleNoRipple \/ RipplePayment
SpecRipple == InitRipple /\ [][NextRipple]_vars

(* ------------------------------- fund flow ----------------------------- *)
FundAmounts == {0, 1, 2, 100, 101}
TargetStarts == {NoAccount, Account(1), Account(2)}
WalletStarts == {NoAccount, Account(3), Account(4)}

InitFund ==
  /\ flow = "fund"
  /\ xrpl = ClientReady
  /\ engine = EngineIdle
  /\ flags = [a \in Accounts |-> {}]
  /\ xrpBalance = [a \in Accounts |-> StartXrp]
  /\ preauthorized = [a \in Accounts |-> {}]
  /\ lines = [h \in Holders |-> NoLine]
  /\ checks = <<>>
  /\ last = NoTx
  /\ \E t \in TargetStarts, w \in WalletStarts :
       fund = [FundIdle EXCEPT !.target = t, !.wallet = w]

FundStart ==
  /\ flow = "fund"
  /\ \E c \in Callers, amount \in FundAmounts : fundWalletStart(c, amount)
  /\ UNCHANGED <<ledger, last, flow, xrpl, engine>>
FundTargetInfo ==
  /\ flow = "fund"
  /\ \E c \in Callers, f \in BOOLEAN : fundWalletTargetInfo(c, f)
  /\ UNCHANGED <<ledger, last, flow, xrpl, engine>>
FundFundInfo ==
  /\ flow = "fund"
  /\ \E c \in Callers, f \in BOOLEAN : fundWalletFundInfo(c, f)
  /\ UNCHANGED <<ledger, last, flow, xrpl, engine>>
FundFaucet ==
  /\ flow = "fund"
  /\ \E c \in Callers, f \in BOOLEAN : fundWalletFaucet(c, f)
  /\ UNCHANGED <<ledger, last, flow, xrpl, engine>>
FundUpdatedInfo ==
  /\ flow = "fund"
  /\ \E c \in Callers, f \in BOOLEAN : fundWalletUpdatedInfo(c, f)
  /\ UNCHANGED <<ledger, last, flow, xrpl, engine>>
FundSubmit ==
  /\ flow = "fund"
  /\ \E c \in Callers, f \in BOOLEAN : fundWalletSubmit(c, f)
  /\ UNCHANGED <<ledger, last, flow, xrpl, engine>>
NextFund ==
  \/ FundStart \/ FundTargetInfo \/ FundFundInfo \/ FundFaucet \/ FundUpdatedInfo
  \/ FundSubmit
SpecFund == InitFund /\ [][NextFund]_vars

(* ----------------------------- client flow ---------------------------- *)
(* the life of the shared client around the flows: initialization, use by  *)
(* getXRPLClient and by the first step of fundWallet, and disconnection    *)
InitClient ==
  /\ flow = "client"
  /\ xrpl = NoClient
  /\ fund = FundIdle
  /\ engine = EngineIdle
  /\ flags = [a \in Accounts |-> {}]
  /\ xrpBalance = [a \in Accounts |-> StartXrp]
  /\ preauthorized = [a \in Accounts |-> {}]
  /\ lines = [h \in Holders |-> NoLine]
  /\ checks = <<>>
  /\ last = NoTx

ClientInitialize ==
  /\ flow = "client"
  /\ initializeXRPLClient
  /\ UNCHANGED <<ledger, last, flow, fund, engine>>
ClientConnect ==
  /\ flow = "client"
  /\ \E ok \in BOOLEAN : clientConnect(ok)
  /\ UNCHANGED <<ledger, last, flow, fund, engine>>
ClientGet ==
  /\ flow = "client"
  /\ getXRPLClient
  /\ UNCHANGED <<ledger, last, flow, fund, engine>>
ClientDisconnect ==
  /\ flow = "client"
  /\ disconnectXRPLClient
  /\ UNCHANGED <<ledger, last, flow, fund, engine>>
ClientDirectDisconnect ==
  /\ flow = "client"
  /\ clientDisconnect
  /\ UNCHANGED <<ledger, last, flow, fund, engine>>
ClientFundWallet ==
  /\ flow = "client"
  /\ \E c \in Callers, amount \in FundAmounts : fundWalletStart(c, amount)
  /\ UNCHANGED <<ledger, last, flow, xrpl, engine>>
NextClient ==
  \/ ClientInitialize \/ ClientConnect \/ ClientGet \/ ClientDisconnect
  \/ ClientDirectDisconnect \/ ClientFundWallet
SpecClient == InitClient /\ [][NextClient]_vars

(* ----------------------------- engine flow ---------------------------- *)
(* two submitters hand transactions to the engine while a reader queries   *)
(* the balances                                                            *)
InitEngine == Funded("engine", {"DefaultRipple"})

EngineRequests ==
  {Request("TrustSet", h, issuerWallet, MaxLimit) : h \in Holders}
  \cup {Request("Payment", issuerWallet, aliceWallet, amt) : amt \in Amounts}
  \cup {Request("Payment", aliceWallet, bobWallet, amt) : amt \in Amounts}

EngineSubmit ==
  /\ flow = "engine"
  /\ \E s \in Callers, req \in EngineRequests : engineSubmit(s, req)
  /\ UNCHANGED <<flow, fund, xrpl>>
EngineAccept ==
  /\ flow = "engine"
  /\ \E s \in Callers : engineAccept(s)
  /\ UNCHANGED <<flow, fund, xrpl>>
NextEngine ==
  \/ EngineSubmit \/ EngineAccept \/ EngineValidate \/ EngineDebit \/ EngineCredit
  \/ EngineTrustSet \/ EngineCommit \/ EngineRead
SpecEngine == InitEngine /\ [][NextEngine]_vars

(* =============================== claims ================================ *)
Failed(tx) == tx.result # "Success"

TokenPaymentTx(tx) == tx.type = "Payment" /\ tx.arg = CURRENCY /\ tx.account \in Accounts
                      /\ tx.peer \in Accounts

(* C1: a transaction that returns a failure code leaves the whole ledger   *)
(* (flags, XRP balances, preauthorized sets, trust lines, checks) as it    *)
(* was before the transaction.                                             *)
C1_FailureLeavesLedgerUnchanged ==
  [][Failed(last') => ledger' = ledger]_vars

(* a check cash by the destination was refused by the payment evaluator    *)
(* while the check stayed Open and the creator's balance stayed in place   *)
C1_Witness ==
  /\ last.type = "CheckCash"
  /\ last.result = "PathDry"
  /\ \E id \in DOMAIN checks :
       /\ last.arg = ToString(id)
       /\ checks[id].status = "Open"
       /\ Balance(checks[id].creator) >= last.amount

(* C2: an issuer Clawback on a line it may claw back (the line exists and  *)
(* was opened under AllowTrustLineClawback) returns Success for every      *)
(* requested amount R > 0 and leaves the holder max(0, B - R).             *)
C2_ClawbackClamps ==
  [][(/\ last'.type = "Clawback"
      /\ last'.account = issuerWallet
      /\ HasLine(last'.peer)
      /\ lines[last'.peer].clawback)
     => /\ last'.result = "Success"
        /\ lines'[last'.peer].balance = Max(0, lines[last'.peer].balance - last'.amount)
        /\ lines'[last'.peer].balance >= 0]_vars

(* an over-request emptied a line while the other holder still holds tokens *)
C2_Witness ==
  /\ last.type = "Clawback"
  /\ last.result = "Success"
  /\ last.amount = MaxAmount
  /\ last.peer = bobWallet
  /\ lines[bobWallet].clawback
  /\ lines[bobWallet].balance = 0
  /\ lines[bobWallet].balancePeer = 0
  /\ Balance(aliceWallet) > 0

(* C3: once AllowTrustLineClawback is in an account's flags it stays in    *)
(* them in every later state, and an AccountSet clearing it returns        *)
(* Success and changes nothing.                                            *)
C3_ClawbackFlagPermanent ==
  [][/\ \A a \in Accounts :
          "AllowTrustLineClawback" \in flags[a] => "AllowTrustLineClawback" \in flags'[a]
     /\ (/\ last'.type = "AccountSet"
         /\ last'.arg = "ClearAllowTrustLineClawback"
         /\ last'.account \in Accounts)
        => last'.result = "Success" /\ ledger' = ledger]_vars

C3_Witness ==
  /\ last.type = "AccountSet"
  /\ last.arg = "ClearAllowTrustLineClawback"
  /\ last.account = issuerWallet
  /\ last.result = "Success"
  /\ "AllowTrustLineClawback" \in flags[issuerWallet]

(* C4: while the issuer has GlobalFreeze set, a token payment between two  *)
(* accounts that are both not the issuer is denied with PathDry and moves  *)
(* nothing; a mint within the receiver's limit and a redeem within the     *)
(* sender's balance succeed and move exactly the paid amount.              *)
C4_GlobalFreeze ==
  [][(TokenPaymentTx(last') /\ "GlobalFreeze" \in flags[issuerWallet])
     => LET src == last'.account
            dst == last'.peer
            amt == last'.amount IN
        /\ (src # issuerWallet /\ dst # issuerWallet)
             => last'.result = "PathDry" /\ ledger' = ledger
        /\ (/\ src = issuerWallet
            /\ HasLine(dst)
            /\ "RequireAuth" \in flags[issuerWallet] => lines[dst].authorized
            /\ "DepositAuth" \notin flags[dst]
            /\ lines[dst].balance + amt <= lines[dst].limit)
             => /\ last'.result = "Success"
                /\ lines'[dst].balance = lines[dst].balance + amt
        /\ (/\ dst = issuerWallet
            /\ "DepositAuth" \notin flags[dst]
            /\ Balance(src) >= amt)
             => /\ last'.result = "Success"
                /\ lines'[src].balance = lines[src].balance - amt]_vars

(* a funded holder-to-holder transfer was refused under GlobalFreeze *)
C4_Witness ==
  /\ "GlobalFreeze" \in flags[issuerWallet]
  /\ last.type = "Payment"
  /\ last.account = aliceWallet
  /\ last.peer = bobWallet
  /\ last.result = "PathDry"
  /\ Balance(aliceWallet) >= last.amount
  /\ HasLine(bobWallet)
  /\ lines[bobWallet].balance + last.amount <= lines[bobWallet].limit

(* The path checks that precede the deposit check admit the payment.      *)
PathChecksPass(src, dst, currency) ==
  \/ currency = XRP
  \/ /\ dst = issuerWallet \/ HasLine(dst)
     /\ (dst # issuerWallet /\ "RequireAuth" \in flags[issuerWallet])
          => lines[dst].authorized
     /\ ~("GlobalFreeze" \in flags[issuerWallet] /\ src # issuerWallet /\ dst # issuerWallet)
     /\ ~(/\ src # issuerWallet /\ dst # issuerWallet
          /\ HasLine(src) /\ lines[src].noRipplePeer /\ lines[dst].noRipplePeer)

(* C5: while the destination has DepositAuth set, a payment from another   *)
(* account that the destination has not preauthorized is denied and moves  *)
(* nothing, with NoPermission whenever the path checks before it pass (for *)
(* XRP always); a preauthorized source is never answered NoPermission, and *)
(* NoPermission never stems from the source's own DepositAuth.             *)
C5_DepositAuthGatesIncoming ==
  [][(last'.type = "Payment" /\ last'.account \in Accounts /\ last'.peer \in Accounts)
     => LET src == last'.account
            dst == last'.peer IN
        /\ ("DepositAuth" \in flags[dst] /\ src \notin preauthorized[dst])
             => /\ Failed(last')
                /\ ledger' = ledger
                /\ PathChecksPass(src, dst, last'.arg) => last'.result = "NoPermission"
        /\ last'.result = "NoPermission"
             => "DepositAuth" \in flags[dst] /\ src \notin preauthorized[dst]]_vars

(* Bob, with DepositAuth set and Alice not preauthorized, has just paid    *)
(* Alice tokens successfully                                               *)
C5_Witness ==
  /\ "DepositAuth" \in flags[bobWallet]
  /\ aliceWallet \notin preauthorized[bobWallet]
  /\ last.type = "Payment"
  /\ last.arg = CURRENCY
  /\ last.account = bobWallet
  /\ last.peer = aliceWallet
  /\ last.result = "Success"

(* C6: with DepositAuth set on the destination of an Open check and the    *)
(* creator not preauthorized, a cash by the destination of an amount       *)
(* within maxAmount that the creator holds and the destination's line can  *)
(* take succeeds and moves the amount, while the direct Payment from the   *)
(* creator in the same state is denied with NoPermission.                  *)
C6_CheckCashBypassesDepositAuth ==
  [][\A id \in DOMAIN checks :
       LET c == checks[id].creator
           d == checks[id].destination
           amt == last'.amount IN
       (/\ last'.type = "CheckCash"
        /\ last'.arg = ToString(id)
        /\ last'.account = d
        /\ checks[id].status = "Open"
        /\ "DepositAuth" \in flags[d]
        /\ c \notin preauthorized[d]
        /\ amt <= checks[id].maxAmount
        /\ PathChecksPass(c, d, CURRENCY)
        /\ Balance(c) >= amt
        /\ lines[d].balance + amt <= lines[d].limit)
       => /\ last'.result = "Success"
          /\ lines'[c].balance = lines[c].balance - amt
          /\ lines'[d].balance = lines[d].balance + amt
          /\ checks'[id].status = "Cashed"
          /\ PaymentResult(c, d, CURRENCY, amt) = "NoPermission"]_vars

C6_Witness ==
  /\ last.type = "CheckCash"
  /\ last.result = "Success"
  /\ last.account = bobWallet
  /\ "DepositAuth" \in flags[bobWallet]
  /\ aliceWallet \notin preauthorized[bobWallet]
  /\ \E id \in DOMAIN checks :
       /\ last.arg = ToString(id)
       /\ checks[id].creator = aliceWallet
       /\ checks[id].status = "Cashed"
  /\ Balance(bobWallet) >= last.amount

UnauthorizedDestination(tx) ==
  /\ TokenPaymentTx(tx)
  /\ "RequireAuth" \in flags[issuerWallet]
  /\ HasLine(tx.peer)
  /\ ~lines[tx.peer].authorized

AuthorizedDestination(tx) ==
  /\ TokenPaymentTx(tx)
  /\ "RequireAuth" \in flags[issuerWallet]
  /\ HasLine(tx.peer)
  /\ lines[tx.peer].authorized

WithinBalanceAndLimit(tx) ==
  /\ tx.account # issuerWallet => Balance(tx.account) >= tx.amount
  /\ tx.peer # issuerWallet =>
       /\ HasLine(tx.peer)
       /\ lines[tx.peer].balance + tx.amount <= lines[tx.peer].limit

(* C7: while the issuer has RequireAuth set and holder H's line is         *)
(* unauthorized, every token payment to H is denied with NoAuth; once the  *)
(* issuer has authorized the line the payment (within balance and limit)   *)
(* succeeds.                                                               *)
C7_UnauthorizedDeniedNoAuth ==
  [][/\ UnauthorizedDestination(last') => last'.result = "NoAuth"
     /\ (AuthorizedDestination(last') /\ WithinBalanceAndLimit(last'))
          => last'.result = "Success"]_vars

C9_RequireAuthReversible ==
  [][/\ (last'.type = "AccountSet" /\ last'.arg = "ClearRequireAuth"
         /\ last'.account \in Accounts)
          => /\ last'.result = "Success"
             /\ "RequireAuth" \notin flags'[last'.account]
     /\ (/\ TokenPaymentTx(last')
         /\ "RequireAuth" \notin flags[issuerWallet]
         /\ HasLine(last'.peer)
         /\ ~lines[last'.peer].authorized
         /\ WithinBalanceAndLimit(last'))
          => /\ last'.result = "Success"
             /\ lines'[last'.peer].balance = lines[last'.peer].balance + last'.amount]_vars

(* the never-authorized holder has just received a transfer from the       *)
(* authorized holder, RequireAuth being clear                              *)
C9_Witness ==
  /\ "RequireAuth" \notin flags[issuerWallet]
  /\ last.type = "Payment"
  /\ last.account = aliceWallet
  /\ last.peer = bobWallet
  /\ last.result = "Success"
  /\ lines[aliceWallet].authorized
  /\ ~lines[bobWallet].authorized
  /\ lines[bobWallet].balance = last.amount

CheckTx(tx, id) ==
  /\ tx.type \in {"CheckCash", "CheckCancel"}
  /\ tx.arg = ToString(id)
  /\ tx.account \in Accounts

(* C10: a check is created Open and moves only to Cashed or Canceled; a    *)
(* Cashed or Canceled check never changes again; a cash or cancel naming a *)
(* terminal or non-existent check returns NoEntry and changes nothing, and *)
(* only a cash that turns an Open check Cashed moves a balance.            *)
C10_CheckOneShot ==
  [][/\ \A id \in DOMAIN checks' :
          IF id \in DOMAIN checks
            THEN /\ checks[id].status # "Open" => checks'[id] = checks[id]
                 /\ checks'[id].status \in {"Open", "Cashed", "Canceled"}
                 /\ [checks'[id] EXCEPT !.status = "Open"] =
                      [checks[id] EXCEPT !.status = "Open"]
            ELSE checks'[id].status = "Open"
     /\ DOMAIN checks \subseteq DOMAIN checks'
     /\ \A id \in CheckIds :
          (CheckTx(last', id) /\ ~(id \in DOMAIN checks /\ checks[id].status = "Open"))
            => last'.result = "NoEntry" /\ ledger' = ledger
     /\ (last'.type \in {"CheckCash", "CheckCancel", "CheckCreate"} /\ lines' # lines)
          => \E id \in DOMAIN checks :
               /\ last'.type = "CheckCash"
               /\ last'.arg = ToString(id)
               /\ checks[id].status = "Open"
               /\ checks'[id].status = "Cashed"]_vars

(* a second cash of an already cashed check was refused *)
C10_Witness ==
  /\ last.type = "CheckCash"
  /\ last.result = "NoEntry"
  /\ \E id \in DOMAIN checks :
       /\ last.arg = ToString(id)
       /\ last.account = checks[id].destination
       /\ checks[id].status = "Cashed"
       /\ Balance(checks[id].creator) >= last.amount

(* C11: a CheckCancel moves the named check to Canceled exactly when the    *)
(* check is Open and the submitter is its creator or its destination; in   *)
(* every other case no check changes.                                      *)
C11_CancelByPartiesOnly ==
  [][\A id \in CheckIds :
       (last'.type = "CheckCancel" /\ last'.arg = ToString(id))
       => IF /\ id \in DOMAIN checks
             /\ checks[id].status = "Open"
             /\ last'.account \in {checks[id].creator, checks[id].destination}
            THEN /\ last'.result = "Success"
                 /\ checks' = [checks EXCEPT ![id].status = "Canceled"]
            ELSE /\ Failed(last')
                 /\ checks' = checks]_vars

(* the destination has just canceled an Open check *)
C11_Witness ==
  /\ last.type = "CheckCancel"
  /\ last.result = "Success"
  /\ \E id \in DOMAIN checks :
       /\ last.arg = ToString(id)
       /\ last.account = checks[id].destination
       /\ checks[id].status = "Canceled"

(* C12: a CheckCash succeeds only if its submitter is the destination of   *)
(* the named check, the check is Open and the amount is within maxAmount;  *)
(* a successful cash debits the creator and credits the destination by     *)
(* exactly the amount and turns the check Cashed; a CheckCreate moves no   *)
(* balance.                                                                *)
C12_CheckCashConditions ==
  [][/\ (last'.type = "CheckCash" /\ last'.result = "Success")
          => \E id \in DOMAIN checks :
               LET c == checks[id].creator
                   d == checks[id].destination IN
               /\ last'.arg = ToString(id)
               /\ last'.account = d
               /\ checks[id].status = "Open"
               /\ last'.amount <= checks[id].maxAmount
               /\ lines'[c].balance = lines[c].balance - last'.amount
               /\ lines'[d].balance = lines[d].balance + last'.amount
               /\ \A h \in Holders \ {c, d} : lines'[h] = lines[h]
               /\ checks' = [checks EXCEPT ![id].status = "Cashed"]
     /\ last'.type = "CheckCreate"
          => lines' = lines /\ xrpBalance' = xrpBalance]_vars

(* the destination has cashed a check for less than its maxAmount *)
C12_Witness ==
  /\ last.type = "CheckCash"
  /\ last.result = "Success"
  /\ \E id \in DOMAIN checks :
       /\ last.arg = ToString(id)
       /\ last.account = checks[id].destination
       /\ last.amount < checks[id].maxAmount
       /\ checks[id].status = "Cashed"
       /\ Balance(checks[id].destination) >= last.amount

C14_PreauthRevocable ==
  [][/\ \A a \in Accounts, b \in Accounts :
          (last'.type = "DepositPreauth" /\ last'.account = b /\ last'.peer = a)
          => /\ last'.result = "Success"
             /\ lines' = lines /\ xrpBalance' = xrpBalance /\ flags' = flags
             /\ last'.arg = "Authorize"
                  => /\ a \in preauthorized'[b]
                     /\ PaymentResult(a, b, XRP, 1)' # "NoPermission"
                     /\ PaymentResult(a, b, CURRENCY, 1)' # "NoPermission"
                     /\ xrpBalance[a] - 1 >= ReserveFloor
                          => PaymentResult(a, b, XRP, 1)' = "Success"
             /\ (last'.arg = "Unauthorize" /\ "DepositAuth" \in flags[b])
                  => /\ a \notin preauthorized'[b]
                     /\ PaymentResult(a, b, XRP, 1)' = "NoPermission"
                     /\ PathChecksPass(a, b, CURRENCY)
                          => PaymentResult(a, b, CURRENCY, 1)' = "NoPermission"
     /\ (/\ last'.type = "Payment"
         /\ last'.account \in Accounts /\ last'.peer \in Accounts
         /\ "DepositAuth" \in flags[last'.peer]
         /\ PathChecksPass(last'.account, last'.peer, last'.arg))
          => IF last'.account \in preauthorized[last'.peer]
               THEN last'.result # "NoPermission"
               ELSE last'.result = "NoPermission" /\ ledger' = ledger]_vars

(* Bob, under DepositAuth, has just withdrawn Alice's preauthorization     *)
(* while the issuer's stays in place                                       *)
C14_Witness ==
  /\ last.type = "DepositPreauth"
  /\ last.arg = "Unauthorize"
  /\ last.account = bobWallet
  /\ last.peer = aliceWallet
  /\ last.result = "Success"
  /\ "DepositAuth" \in flags[bobWallet]
  /\ preauthorized[bobWallet] = {issuerWallet}
  /\ HasLine(aliceWallet) /\ HasLine(bobWallet)
  /\ Balance(aliceWallet) > 0
  /\ Balance(bobWallet) > 0

(* C15: with DepositAuth set on holder B, the issuer not preauthorized by  *)
(* B and B holding a trust line (authorized where RequireAuth demands it), *)
(* an issuer mint to B is denied with NoPermission and B's balance, like   *)
(* the rest of the ledger, is unchanged.                                   *)
C15_IssuerNotExempt ==
  [][\A b \in Holders :
       (/\ TokenPaymentTx(last')
        /\ last'.account = issuerWallet
        /\ last'.peer = b
        /\ "DepositAuth" \in flags[b]
        /\ issuerWallet \notin preauthorized[b]
        /\ HasLine(b)
        /\ "RequireAuth" \in flags[issuerWallet] => lines[b].authorized)
       => /\ last'.result = "NoPermission"
          /\ lines'[b].balance = lines[b].balance
          /\ ledger' = ledger]_vars

(* a mint that Bob's limit would take was refused under Bob's DepositAuth  *)
C15_Witness ==
  /\ last.type = "Payment"
  /\ last.arg = CURRENCY
  /\ last.account = issuerWallet
  /\ last.peer = bobWallet
  /\ last.result = "NoPermission"
  /\ "DepositAuth" \in flags[bobWallet]
  /\ HasLine(bobWallet)
  /\ lines[bobWallet].balance + last.amount <= lines[bobWallet].limit

(* C16: when a holder opens a trust line, NoRipple starts clear on the     *)
(* holder's side and, on the issuer's side, set exactly when the issuer    *)
(* does not have DefaultRipple at that moment; the line starts with        *)
(* balance 0 and the limit the holder asked for.                           *)
C16_DefaultNoRipple ==
  [][\A h \in Holders :
       (/\ last'.type = "TrustSet"
        /\ last'.account = h
        /\ last'.peer = issuerWallet
        /\ ~lines[h].exists)
       => /\ last'.result = "Success"
          /\ lines'[h].exists
          /\ lines'[h].noRipple = FALSE
          /\ lines'[h].noRipplePeer = ("DefaultRipple" \notin flags[issuerWallet])
          /\ lines'[h].balance = 0
          /\ lines'[h].limit = last'.amount]_vars

(* Bob has just opened a line under DefaultRipple while Alice's line,      *)
(* opened without it, still carries the issuer's NoRipple                  *)
C16_Witness ==
  /\ last.type = "TrustSet"
  /\ last.account = bobWallet
  /\ last.result = "Success"
  /\ "DefaultRipple" \in flags[issuerWallet]
  /\ HasLine(aliceWallet) /\ lines[aliceWallet].noRipplePeer
  /\ HasLine(bobWallet) /\ ~lines[bobWallet].noRipplePeer
  /\ lines[bobWallet].balance = 0
  /\ lines[bobWallet].limit = 1
  /\ lines[aliceWallet].limit = MaxLimit

BetweenHolders(tx) ==
  /\ TokenPaymentTx(tx)
  /\ tx.account \in Holders
  /\ tx.peer \in Holders
  /\ HasLine(tx.account)
  /\ HasLine(tx.peer)

(* C17 as stated: the issuer's NoRipple on either holder's line denies a   *)
(* holder-to-holder payment (one the balance and the limit would allow)    *)
(* with PathDry, the receiver's balance unchanged.                         *)
C17_NoRippleEitherDenies ==
  [][(/\ BetweenHolders(last')
      /\ WithinBalanceAndLimit(last')
      /\ lines[last'.account].noRipplePeer \/ lines[last'.peer].noRipplePeer)
     => /\ last'.result = "PathDry"
        /\ lines'[last'.peer].balance = lines[last'.peer].balance]_vars

(* C17, amended: a payment between two holders is denied with PathDry, the *)
(* ledger unchanged, exactly when the issuer's NoRipple is set on both     *)
(* holders' lines; when it is clear on at least one of them the payment,   *)
(* within the sender's balance and the receiver's limit, succeeds.         *)
C17_NoRippleBothDenies ==
  [][(/\ BetweenHolders(last')
      /\ "RequireAuth" \notin flags[issuerWallet]
      /\ "GlobalFreeze" \notin flags[issuerWallet]
      /\ "DepositAuth" \notin flags[last'.peer])
     => LET both == lines[last'.account].noRipplePeer /\ lines[last'.peer].noRipplePeer IN
        /\ last'.result = "PathDry" <=> both
        /\ both => ledger' = ledger
        /\ (~both /\ WithinBalanceAndLimit(last')) => last'.result = "Success"]_vars

(* Alice, whose line carries the issuer's NoRipple, has just paid Bob,     *)
(* whose line does not                                                     *)
C17_Witness ==
  /\ last.type = "Payment"
  /\ last.account = aliceWallet
  /\ last.peer = bobWallet
  /\ last.result = "Success"
  /\ lines[aliceWallet].noRipplePeer
  /\ ~lines[bobWallet].noRipplePeer
  /\ Balance(bobWallet) >= last.amount

(* The issuer has no DefaultRipple, its NoRipple is still set on a's line  *)
(* and clear on b's.                                                       *)
ClearedOnDestinationOnly(a, b) ==
  /\ "DefaultRipple" \notin flags[issuerWallet]
  /\ HasLine(a) /\ lines[a].noRipplePeer
  /\ HasLine(b) /\ ~lines[b].noRipplePeer

(* C18: when the issuer, without DefaultRipple, clears its NoRipple on     *)
(* holder B's line, that line alone changes; from then on, with the        *)
(* issuer's NoRipple still set on A's line, a payment from A to B and a    *)
(* cash by B of A's check (within A's balance, B's limit and the check's   *)
(* maxAmount) succeed and move exactly the amount from A to B.             *)
C18_ClearOnOneLineSuffices ==
  [][\A a \in Holders : \A b \in Holders \ {a} :
       /\ (/\ last'.type = "TrustSet" /\ last'.arg = "ClearNoRipple"
           /\ last'.account = issuerWallet /\ last'.peer = b
           /\ HasLine(b))
            => /\ last'.result = "Success"
               /\ ~lines'[b].noRipplePeer
               /\ lines'[a] = lines[a]
       /\ (/\ ClearedOnDestinationOnly(a, b)
           /\ Balance(a) >= last'.amount
           /\ lines[b].balance + last'.amount <= lines[b].limit
           /\ \/ /\ TokenPaymentTx(last')
                 /\ last'.account = a /\ last'.peer = b
                 /\ ~DepositBlocked(a, b)
              \/ /\ last'.type = "CheckCash" /\ last'.account = b
                 /\ \E id \in DOMAIN checks :
                      /\ last'.arg = ToString(id)
                      /\ checks[id].status = "Open"
                      /\ checks[id].creator = a
                      /\ checks[id].destination = b
                      /\ last'.amount <= checks[id].maxAmount)
            => /\ last'.result = "Success"
               /\ lines'[a].balance = lines[a].balance - last'.amount
               /\ lines'[b].balance = lines[b].balance + last'.amount]_vars

(* Alice has just paid Bob directly, her own line still carrying the       *)
(* issuer's NoRipple and Bob's line cleared                                *)
C18_Witness ==
  /\ ClearedOnDestinationOnly(aliceWallet, bobWallet)
  /\ last.type = "Payment"
  /\ last.account = aliceWallet
  /\ last.peer = bobWallet
  /\ last.result = "Success"
  /\ Balance(bobWallet) >= last.amount

(* C19: in every reachable state the balance of a trust line seen from    *)
(* the issuer is the negation of the balance seen from the holder.         *)
C19_ZeroSum ==
  \A h \in Holders : lines[h].balancePeer = 0 - lines[h].balance

(* a clawback has just taken part of a holder's balance, both views of the *)
(* line staying opposite and non-zero                                      *)
C19_Witness ==
  /\ last.type = "Clawback"
  /\ last.result = "Success"
  /\ last.peer \in Holders
  /\ lines[last.peer].balance > 0
  /\ lines[last.peer].balancePeer < 0

(* C20: when fundWallet reads a target that exists with a balance of at    *)
(* least the requested amount, the call returns normally having read no    *)
(* fund-wallet balance, requested no faucet and submitted no Payment, and  *)
(* no balance moves; hence a call whose read of the target comes after     *)
(* another call's successful Payment of the same amount transfers nothing. *)
C20_SkipIfSufficient ==
  [][\A c \in Callers :
       (/\ fund.calls[c].pc = "readTarget"
        /\ fund'.calls[c].pc \notin {"readTarget", "thrown"})
       => /\ (fund.target.exists /\ fund.target.balance >= fund.calls[c].amount)
               => /\ fund'.calls[c].pc = "returned"
                  /\ fund'.calls[c].error = ""
                  /\ fund'.calls[c].fundReads = 0
                  /\ fund'.calls[c].faucetCalls = 0
                  /\ fund'.calls[c].payments = 0
                  /\ fund'.target = fund.target
                  /\ fund'.wallet = fund.wallet
          /\ (\E d \in Callers \ {c} :
                 /\ fund.calls[d].pc = "returned"
                 /\ fund.calls[d].payments = 1
                 /\ fund.calls[d].amount = fund.calls[c].amount)
               => /\ fund'.calls[c].pc = "returned"
                  /\ fund'.calls[c].payments = 0
                  /\ fund'.target = fund.target]_vars

(* a second call for the same amount has returned without a Payment after  *)
(* the first call funded a target that did not exist                       *)
C20_Witness ==
  /\ fund.calls["first"].pc = "returned"
  /\ fund.calls["first"].payments = 1
  /\ fund.calls["second"].pc = "returned"
  /\ fund.calls["second"].payments = 0
  /\ fund.calls["second"].fundReads = 0
  /\ fund.calls["second"].amount = fund.calls["first"].amount
  /\ fund.target = Account(fund.calls["first"].amount)

C22_AuthorizationIssuerOnly ==
  [][\A h \in Holders :
       LET issuerAuthorizes == /\ last'.type = "TrustSet"
                               /\ last'.account = issuerWallet
                               /\ last'.peer = h
                               /\ last'.arg = "SetAuth" IN
       /\ lines[h].authorized => lines'[h].authorized
       /\ (~lines[h].authorized /\ lines'[h].authorized) => issuerAuthorizes
       /\ (/\ last'.type = "TrustSet" /\ last'.account = h
           /\ ~lines[h].exists /\ lines'[h].exists)
            => ~lines'[h].authorized
       /\ (last'.type = "TrustSet" /\ last'.account = h /\ last'.arg = "SetAuth")
            => Failed(last') /\ ledger' = ledger
       /\ issuerAuthorizes
            => /\ last'.result = "Success"
               /\ lines'[h].authorized
               /\ lines[h].authorized => ledger' = ledger]_vars

(* RequireAuth has just been set again while Alice's line, authorized and  *)
(* funded, stays authorized and Bob's line has never been authorized       *)
C22_Witness ==
  /\ last.type = "AccountSet"
  /\ last.arg = "SetRequireAuth"
  /\ last.result = "Success"
  /\ "RequireAuth" \in flags[issuerWallet]
  /\ HasLine(aliceWallet) /\ lines[aliceWallet].authorized
  /\ HasLine(bobWallet) /\ ~lines[bobWallet].authorized
  /\ Balance(aliceWallet) > 0
  /\ Balance(bobWallet) > 0

OtherKind(currency) == IF currency = XRP THEN CURRENCY ELSE XRP

(* C23: a payment of either kind whose earlier path checks pass is denied  *)
(* with NoPermission exactly when the destination has DepositAuth and has  *)
(* not preauthorized the source, and in that same state the payment of the *)
(* other kind between the same accounts gets the same verdict.             *)
C23_DepositAuthBothKinds ==
  [][(/\ last'.type = "Payment"
      /\ last'.account \in Accounts /\ last'.peer \in Accounts
      /\ PathChecksPass(last'.account, last'.peer, last'.arg))
     => LET src == last'.account
            dst == last'.peer
            denied == "DepositAuth" \in flags[dst] /\ src \notin preauthorized[dst] IN
        /\ last'.result = "NoPermission" <=> denied
        /\ denied => ledger' = ledger
        /\ PathChecksPass(src, dst, OtherKind(last'.arg))
             => (PaymentResult(src, dst, OtherKind(last'.arg), last'.amount)
                   = "NoPermission" <=> denied)]_vars

(* an XRP payment from Alice was refused by Bob's DepositAuth in a state   *)
(* where Alice holds tokens that Bob's line could take                     *)
C23_Witness ==
  /\ last.type = "Payment"
  /\ last.arg = XRP
  /\ last.account = aliceWallet
  /\ last.peer = bobWallet
  /\ last.result = "NoPermission"
  /\ xrpBalance[aliceWallet] - last.amount >= ReserveFloor
  /\ HasLine(bobWallet)
  /\ Balance(aliceWallet) >= last.amount
  /\ lines[bobWallet].balance + last.amount <= lines[bobWallet].limit

(* C24: an AccountSet that sets or clears DefaultRipple changes no trust   *)
(* line, and a NoRipple bit of an existing line changes only in a TrustSet *)
(* on that line that sets or clears NoRipple.                              *)
C24_DefaultRippleSnapshot ==
  [][/\ (last'.type = "AccountSet"
         /\ last'.arg \in {"SetDefaultRipple", "ClearDefaultRipple"})
          => last'.result = "Success" /\ lines' = lines
     /\ \A h \in Holders :
          (/\ lines[h].exists
           /\ \/ lines'[h].noRipple # lines[h].noRipple
              \/ lines'[h].noRipplePeer # lines[h].noRipplePeer)
          => /\ last'.type = "TrustSet"
             /\ last'.arg \in {"SetNoRipple", "ClearNoRipple"}
             /\ h \in {last'.account, last'.peer}]_vars

(* DefaultRipple has just been set while Alice's line, opened before, still *)
(* carries the issuer's NoRipple, Bob's having been cleared explicitly     *)
C24_Witness ==
  /\ last.type = "AccountSet"
  /\ last.arg = "SetDefaultRipple"
  /\ last.result = "Success"
  /\ "DefaultRipple" \in flags[issuerWallet]
  /\ HasLine(aliceWallet) /\ lines[aliceWallet].noRipplePeer
  /\ HasLine(bobWallet) /\ ~lines[bobWallet].noRipplePeer

(* C25: an issuer mint to a holder within the holder's limit and a         *)
(* holder's redeem to the issuer within its balance succeed and move       *)
(* exactly the amount, whatever the NoRipple bits of that line.            *)
C25_DirectIgnoresRippling ==
  [][\A h \in Holders :
       (/\ TokenPaymentTx(last')
        /\ HasLine(h)
        /\ "RequireAuth" \notin flags[issuerWallet]
        /\ "DepositAuth" \notin flags[last'.peer])
       => /\ (/\ last'.account = issuerWallet /\ last'.peer = h
               /\ lines[h].balance + last'.amount <= lines[h].limit)
                => /\ last'.result = "Success"
                   /\ lines'[h].balance = lines[h].balance + last'.amount
          /\ (/\ last'.account = h /\ last'.peer = issuerWallet
               /\ lines[h].balance >= last'.amount)
                => /\ last'.result = "Success"
                   /\ lines'[h].balance = lines[h].balance - last'.amount]_vars

(* Alice has just redeemed tokens on a line that carries the issuer's      *)
(* NoRipple, as does Bob's line                                            *)
C25_Witness ==
  /\ last.type = "Payment"
  /\ last.account = aliceWallet
  /\ last.peer = issuerWallet
  /\ last.result = "Success"
  /\ "DefaultRipple" \notin flags[issuerWallet]
  /\ lines[aliceWallet].noRipplePeer
  /\ HasLine(bobWallet) /\ lines[bobWallet].noRipplePeer

(* The rules of the decision sequence that a token payment from src to dst *)
(* breaks in the current state, by step number.                            *)
BrokenSteps(src, dst, amt) ==
  {n \in {1, 2, 3, 4, 6} :
     \/ n = 1 /\ dst # issuerWallet
              /\ (~HasLine(dst) \/ ("RequireAuth" \in flags[issuerWallet]
                                     /\ ~lines[dst].authorized))
     \/ n = 2 /\ "GlobalFreeze" \in flags[issuerWallet]
              /\ src # issuerWallet /\ dst # issuerWallet
     \/ n = 3 /\ src \in Holders /\ dst \in Holders
              /\ HasLine(src) /\ HasLine(dst)
              /\ lines[src].noRipplePeer /\ lines[dst].noRipplePeer
     \/ n = 4 /\ "DepositAuth" \in flags[dst] /\ src \notin preauthorized[dst]
     \/ n = 6 /\ \/ src # issuerWallet /\ Balance(src) < amt
                 \/ dst # issuerWallet /\ HasLine(dst)
                    /\ lines[dst].balance + amt > lines[dst].limit}

StepCode(n) ==
  IF n = 1 THEN "NoAuth"
  ELSE IF n \in {2, 3} THEN "PathDry"
  ELSE IF n = 4 THEN "NoPermission"
  ELSE "InsufficientLimit"

(* C26: a token payment that breaks several rules of the decision sequence *)
(* at once is answered with the code of the lowest-numbered broken step:   *)
(* NoAuth for a missing or unauthorized line, then PathDry for             *)
(* GlobalFreeze, PathDry for NoRipple, NoPermission for DepositAuth, then  *)
(* the amount/limit code.                                                  *)
C26_FirstBrokenStepDecides ==
  [][TokenPaymentTx(last')
     => LET broken == BrokenSteps(last'.account, last'.peer, last'.amount) IN
        Cardinality(broken) >= 2
          => \E n \in broken :
               /\ \A m \in broken : n <= m
               /\ last'.result = StepCode(n)]_vars

Togglable == {"DisallowXRP", "DepositAuth", "GlobalFreeze", "RequireAuth", "DefaultRipple"}

AccountSetTx(tx, account, verb, flag) ==
  tx.type = "AccountSet" /\ tx.account = account /\ tx.arg = verb \o flag

(* nothing but GlobalFreeze or DepositAuth stands in the way of the payment *)
OtherwiseAdmissible(src, dst, currency, amt) ==
  IF currency = XRP THEN xrpBalance[src] - amt >= ReserveFloor
  ELSE /\ dst = issuerWallet \/ HasLine(dst)
       /\ (dst # issuerWallet /\ "RequireAuth" \in flags[issuerWallet])
            => lines[dst].authorized
       /\ ~(/\ src # issuerWallet /\ dst # issuerWallet
            /\ HasLine(src) /\ lines[src].noRipplePeer /\ lines[dst].noRipplePeer)
       /\ src # issuerWallet => Balance(src) >= amt
       /\ dst # issuerWallet => lines[dst].balance + amt <= lines[dst].limit

(* C27: for DisallowXRP, DepositAuth, GlobalFreeze, RequireAuth and        *)
(* DefaultRipple an AccountSet that sets the flag adds exactly that flag   *)
(* and one that clears it removes exactly that flag, both with Success, so *)
(* set-then-clear restores the prior flag set; a payment that GlobalFreeze *)
(* or DepositAuth refused, and that nothing else stands against, succeeds  *)
(* once the flag is cleared.                                               *)
C27_FlagsTogglable ==
  [][\A acct \in Accounts : \A f \in Togglable :
       /\ AccountSetTx(last', acct, "Set", f)
            => /\ last'.result = "Success"
               /\ flags' = [flags EXCEPT ![acct] = @ \cup {f}]
       /\ AccountSetTx(last', acct, "Clear", f)
            => /\ last'.result = "Success"
               /\ flags' = [flags EXCEPT ![acct] = @ \ {f}]
               /\ (AccountSetTx(last, acct, "Set", f) /\ last.result = "Success")
                    => f \notin flags'[acct]
               /\ (f = "GlobalFreeze" /\ acct = issuerWallet /\ f \in flags[acct])
                    => \A a \in Holders : \A b \in Holders \ {a} : \A amt \in 1..MaxAmount :
                         (/\ PaymentResult(a, b, CURRENCY, amt) = "PathDry"
                          /\ OtherwiseAdmissible(a, b, CURRENCY, amt)
                          /\ ~("DepositAuth" \in flags[b] /\ a \notin preauthorized[b]))
                           => PaymentResult(a, b, CURRENCY, amt)' = "Success"
               /\ (f = "DepositAuth" /\ f \in flags[acct])
                    => \A a \in Accounts \ {acct} : \A c \in {XRP, CURRENCY} :
                       \A amt \in 1..MaxAmount :
                         (/\ PaymentResult(a, acct, c, amt) = "NoPermission"
                          /\ OtherwiseAdmissible(a, acct, c, amt))
                           => PaymentResult(a, acct, c, amt)' = "Success"]_vars

(* GlobalFreeze has just been cleared and Alice can pay Bob again *)
C27_Witness ==
  /\ AccountSetTx(last, issuerWallet, "Clear", "GlobalFreeze")
  /\ last.result = "Success"
  /\ "GlobalFreeze" \notin flags[issuerWallet]
  /\ HasLine(aliceWallet) /\ HasLine(bobWallet)
  /\ Balance(aliceWallet) >= 1
  /\ PaymentResult(aliceWallet, bobWallet, CURRENCY, 1) = "Success"

HolderView(line) == <<line.limit, line.noRipple>>
IssuerView(line) == <<line.limitPeer, line.noRipplePeer, line.authorized>>

(* C28: a TrustSet on an existing trust line changes only the submitting   *)
(* party's view: the issuer's TrustSet with limit 0 (tfSetfAuth or         *)
(* tfClearNoRipple) succeeds and leaves the holder's limit, the holder's   *)
(* own noRipple bit and the balance as they were, and every other line     *)
(* untouched; a holder's TrustSet leaves the issuer's view and the balance *)
(* as they were.                                                           *)
C28_TrustSetOwnViewOnly ==
  [][\A h \in Holders :
       (/\ last'.type = "TrustSet"
        /\ {last'.account, last'.peer} = {issuerWallet, h}
        /\ HasLine(h))
         => /\ \A o \in Holders \ {h} : lines'[o] = lines[o]
            /\ lines'[h].balance = lines[h].balance
            /\ lines'[h].exists
            /\ last'.account = issuerWallet
                 => /\ last'.result = "Success"
                    /\ HolderView(lines'[h]) = HolderView(lines[h])
            /\ last'.account = h
                 => IssuerView(lines'[h]) = IssuerView(lines[h])]_vars

(* the issuer has just authorized, or cleared its NoRipple on, a line that *)
(* Bob opened with a positive limit and that carries a balance             *)
C28_Witness ==
  /\ last.type = "TrustSet" /\ last.account = issuerWallet /\ last.peer = bobWallet
  /\ last.amount = 0 /\ last.arg \in {"SetAuth", "ClearNoRipple"}
  /\ last.result = "Success"
  /\ HasLine(bobWallet)
  /\ lines[bobWallet].limit > 0
  /\ lines[bobWallet].balance > 0

(* the issuer's total liability: what the holders hold between them *)
Supply == lines[aliceWallet].balance + lines[bobWallet].balance

SucceededTokenPayment(tx) == TokenPaymentTx(tx) /\ tx.result = "Success"

(* C29: a successful token payment, or cash of a check, of x from holder A *)
(* to holder B takes exactly x from A and gives exactly x to B and leaves  *)
(* the sum of the holders' balances as it was; that sum changes only in a  *)
(* payment from the issuer (by +x), a payment to the issuer (by -x) or a   *)
(* Clawback (downwards).                                                   *)
C29_TransfersConserveSupply ==
  [][/\ \A a \in Holders : \A b \in Holders \ {a} :
          (\/ /\ SucceededTokenPayment(last')
              /\ last'.account = a /\ last'.peer = b
           \/ /\ last'.type = "CheckCash" /\ last'.result = "Success"
              /\ \E id \in DOMAIN checks :
                   /\ last'.arg = ToString(id)
                   /\ checks[id].creator = a /\ checks[id].destination = b)
            => /\ lines'[a].balance = lines[a].balance - last'.amount
               /\ lines'[b].balance = lines[b].balance + last'.amount
               /\ Supply' = Supply
     /\ Supply' # Supply
          => \/ /\ SucceededTokenPayment(last') /\ last'.account = issuerWallet
                /\ Supply' = Supply + last'.amount
             \/ /\ SucceededTokenPayment(last') /\ last'.peer = issuerWallet
                /\ Supply' = Supply - last'.amount
             \/ /\ last'.type = "Clawback" /\ last'.result = "Success"
                /\ last'.account = issuerWallet
                /\ Supply' < Supply]_vars

(* Alice has just paid Bob part of what she held *)
C29_Witness ==
  /\ SucceededTokenPayment(last)
  /\ last.account = aliceWallet /\ last.peer = bobWallet
  /\ lines[aliceWallet].balance > 0
  /\ lines[bobWallet].balance >= last.amount

(* C30: in every reachable state the balance of every holder's trust line, *)
(* seen from the holder, is at least 0.                                    *)
C30_BalanceNeverNegative ==
  \A h \in Holders : lines[h].balance >= 0

(* a holder's balance has just been brought to exactly 0, by a Clawback    *)
(* that asked for more than was held or by a payment of all that was held  *)
C30_Witness ==
  \E h \in Holders :
    /\ HasLine(h)
    /\ lines[h].balance = 0
    /\ last.result = "Success"
    /\ last.amount > 0
    /\ \/ last.type = "Clawback" /\ last.peer = h /\ last.amount = MaxAmount
       \/ last.type = "Payment" /\ last.arg = CURRENCY /\ last.account = h

(* nothing but the receiver's limit can stand against moving amt of the    *)
(* token from src to dst; gated says whether DepositAuth is consulted      *)
OnlyLimitLeft(src, dst, amt, gated) ==
  /\ PathChecksPass(src, dst, CURRENCY)
  /\ gated => ~("DepositAuth" \in flags[dst] /\ src \notin preauthorized[dst])
  /\ src # issuerWallet => Balance(src) >= amt

OverLimit(dst, amt) ==
  dst # issuerWallet /\ HasLine(dst) /\ lines[dst].balance + amt > lines[dst].limit

(* C31: a token payment, or a check cash, that nothing else stands against *)
(* and that would raise a holder's balance above the limit of its trust    *)
(* line fails with InsufficientLimit and leaves the ledger as it was; no   *)
(* step raises a holder's balance above its limit; and a payment to the    *)
(* issuer that nothing else stands against succeeds whatever its amount.   *)
C31_ReceiverLimitEnforced ==
  [][/\ (/\ TokenPaymentTx(last')
         /\ OnlyLimitLeft(last'.account, last'.peer, last'.amount, TRUE))
          => IF OverLimit(last'.peer, last'.amount)
               THEN last'.result = "InsufficientLimit" /\ ledger' = ledger
               ELSE last'.result = "Success"
     /\ \A id \in DOMAIN checks :
          (/\ last'.type = "CheckCash" /\ last'.arg = ToString(id)
           /\ checks[id].status = "Open"
           /\ last'.account = checks[id].destination
           /\ last'.amount <= checks[id].maxAmount
           /\ OnlyLimitLeft(checks[id].creator, checks[id].destination, last'.amount, FALSE)
           /\ OverLimit(checks[id].destination, last'.amount))
            => last'.result = "InsufficientLimit" /\ ledger' = ledger
     /\ \A h \in Holders :
          lines'[h].balance > lines[h].balance
            => lines'[h].balance <= lines[h].limit]_vars

(* a payment from a sender that held the amount has just been refused      *)
(* because the receiver's balance would have passed its limit              *)
C31_Witness ==
  /\ TokenPaymentTx(last)
  /\ last.result = "InsufficientLimit"
  /\ OnlyLimitLeft(last.account, last.peer, last.amount, TRUE)
  /\ OverLimit(last.peer, last.amount)
  /\ lines[last.peer].balance > 0

XrpPaymentTx(tx) ==
  /\ tx.type = "Payment" /\ tx.arg = XRP
  /\ tx.account \in Accounts /\ tx.peer \in Accounts

BelowFloor(src, amt) == xrpBalance[src] - amt < ReserveFloor

(* C32: in every reachable state every account's XRP balance is at least   *)
(* the reserve floor; a native payment that DepositAuth does not refuse    *)
(* and that would take the sender below the floor fails with               *)
(* InsufficientReserve and changes no balance, and one that keeps the      *)
(* sender at or above the floor succeeds.                                  *)
C32_ReserveFloorKept ==
  /\ [](\A a \in Accounts : xrpBalance[a] >= ReserveFloor)
  /\ [][(/\ XrpPaymentTx(last')
         /\ ~("DepositAuth" \in flags[last'.peer]
              /\ last'.account \notin preauthorized[last'.peer]))
          => IF BelowFloor(last'.account, last'.amount)
               THEN /\ last'.result = "InsufficientReserve"
                    /\ xrpBalance' = xrpBalance
                    /\ ledger' = ledger
               ELSE /\ last'.result = "Success"
                    /\ xrpBalance'[last'.account]
                         = xrpBalance[last'.account] - last'.amount]_vars

(* a sender already at the floor has just been refused a native payment *)
C32_Witness ==
  /\ XrpPaymentTx(last)
  /\ last.result = "InsufficientReserve"
  /\ xrpBalance[last.account] = ReserveFloor
  /\ xrpBalance[last.peer] > StartXrp

(* C33: a Clawback succeeds only when the issuer submits it against a      *)
(* holder; submitted by any other account it is rejected and the ledger is *)
(* left as it was; a successful Clawback changes nothing but the balance   *)
(* of the named holder's line.                                             *)
C33_ClawbackIssuerOnly ==
  [][last'.type = "Clawback"
     => /\ last'.result = "Success"
             => /\ last'.account = issuerWallet
                /\ last'.peer \in Holders
                /\ \A o \in Holders \ {last'.peer} : lines'[o] = lines[o]
                /\ lines'[last'.peer] =
                     [lines[last'.peer] EXCEPT
                        !.balance = lines'[last'.peer].balance,
                        !.balancePeer = lines'[last'.peer].balancePeer]
                /\ lines'[last'.peer].balance <= lines[last'.peer].balance
                /\ <<flags, xrpBalance, preauthorized, checks>>'
                     = <<flags, xrpBalance, preauthorized, checks>>
        /\ last'.account # issuerWallet
             => Failed(last') /\ ledger' = ledger]_vars

(* Alice has just been refused a Clawback against Bob's line, a line the   *)
(* issuer could claw back and that carries a balance                       *)
C33_Witness ==
  /\ last.type = "Clawback"
  /\ last.account = aliceWallet /\ last.peer = bobWallet
  /\ Failed(last)
  /\ HasLine(bobWallet) /\ lines[bobWallet].clawback
  /\ lines[bobWallet].balance > 0
  /\ "AllowTrustLineClawback" \in flags[aliceWallet]

(* C34: a trust line can be clawed back exactly when the issuer's          *)
(* AllowTrustLineClawback was set at the moment the line was established:  *)
(* the line records the flag on creation and keeps the record; a Clawback  *)
(* against a line established without the flag fails and moves no balance, *)
(* also after the flag has been set, while the issuer's Clawback against a *)
(* line established under the flag succeeds.                               *)
C34_ClawbackNeedsFlagBeforeLine ==
  [][\A h \in Holders :
       /\ (~HasLine(h) /\ lines'[h].exists)
            => lines'[h].clawback = ("AllowTrustLineClawback" \in flags[issuerWallet])
       /\ HasLine(h) => lines'[h].exists /\ lines'[h].clawback = lines[h].clawback
       /\ (last'.type = "Clawback" /\ last'.peer = h /\ HasLine(h))
            => IF lines[h].clawback
                 THEN last'.account = issuerWallet => last'.result = "Success"
                 ELSE Failed(last') /\ ledger' = ledger]_vars

(* the issuer, with the flag now set, has just been refused a Clawback     *)
(* against a funded line that Bob opened before the flag was set           *)
C34_Witness ==
  /\ last.type = "Clawback"
  /\ last.account = issuerWallet /\ last.peer = bobWallet
  /\ Failed(last)
  /\ "AllowTrustLineClawback" \in flags[issuerWallet]
  /\ HasLine(bobWallet) /\ ~lines[bobWallet].clawback
  /\ lines[bobWallet].balance > 0

RangeError == "Amount must be between 1 and 100 XRP"

(* what a call has asked of the network so far *)
Requests(call) == <<call.fundReads, call.faucetCalls, call.payments>>

(* C36: a fundWallet call with an amount below 1 XRP or above 100 XRP      *)
(* throws 'Amount must be between 1 and 100 XRP' at once: the mnemonic is  *)
(* neither generated nor stored, no account_info, faucet or Payment        *)
(* request is made and no account changes; a call with an amount from 1 to *)
(* 100 XRP passes the check (its mnemonic is ensured and the target's      *)
(* account_info is requested), and no later step throws this message.      *)
C36_RangeCheckedFirst ==
  [][\A c \in Callers :
       /\ (fund.calls[c].pc = "idle" /\ fund'.calls[c].pc # "idle")
            => LET amount == fund'.calls[c].amount IN
               IF amount < 1 \/ amount > 100
                 THEN /\ fund'.calls[c].pc = "thrown"
                      /\ fund'.calls[c].error = RangeError
                      /\ Requests(fund'.calls[c]) = <<0, 0, 0>>
                      /\ fund'.mnemonic = fund.mnemonic
                      /\ fund'.target = fund.target
                      /\ fund'.wallet = fund.wallet
                 ELSE /\ fund'.calls[c].error # RangeError
                      /\ isConnected => /\ fund'.calls[c].pc = "readTarget"
                                         /\ fund'.calls[c].error = ""
                      /\ fund'.mnemonic
       /\ fund.calls[c].pc # "idle"
            => /\ fund'.calls[c].error = RangeError => fund'.calls[c] = fund.calls[c]
               /\ fund.calls[c].error = RangeError => fund'.calls[c] = fund.calls[c]]_vars

(* a call for 101 XRP has thrown while no mnemonic has been stored and the *)
(* other caller has not started                                            *)
C36_Witness ==
  /\ fund.calls["first"].pc = "thrown"
  /\ fund.calls["first"].error = RangeError
  /\ fund.calls["first"].amount = 101
  /\ ~fund.mnemonic
  /\ fund.calls["second"].pc = "idle"

StillShort == "Still insufficient balance after auto-funding"

(* C37: a call asks the faucet exactly when the fund wallet it read does   *)
(* not exist or holds less than amount + 2 XRP, and at most once; after    *)
(* the faucet has answered the balance is read again, and if it is still   *)
(* below amount + 2 XRP the call throws 'Still insufficient balance after  *)
(* auto-funding' and has submitted, and will submit, no Payment.           *)
C37_FaucetWhenNeededOnce ==
  [][\A c \in Callers :
       LET call == fund.calls[c]
           after == fund'.calls[c]
           short == ~fund.wallet.exists \/ fund.wallet.balance < call.amount + 2 IN
       /\ (call.pc = "readFund" /\ after.pc \notin {"readFund", "thrown"})
            => after.pc = IF short THEN "faucet" ELSE "submit"
       /\ after.faucetCalls <= 1
       /\ after.faucetCalls # call.faucetCalls
            => call.pc = "faucet" /\ after.pc \in {"reread", "thrown"}
       /\ after.pc = "faucet" => call.pc \in {"readFund", "faucet"}
       /\ (call.pc = "faucet" /\ after.pc = "reread")
            => fund'.wallet = Account(fund.wallet.balance + 100)
       /\ (call.pc = "reread" /\ after.pc # "reread" /\ after.error # "account_info")
            => IF fund.wallet.balance < call.amount + 2
                 THEN /\ after.pc = "thrown"
                      /\ after.error = StillShort
                      /\ after.payments = 0
                 ELSE after.pc = "submit"
       /\ call.error = StillShort => after = call
       /\ after.error = StillShort => after.payments = 0]_vars

(* a call for 100 XRP found no fund wallet, asked the faucet once and threw *)
(* because 100 XRP is less than 100 + 2                                    *)
C37_Witness ==
  /\ fund.calls["first"].pc = "thrown"
  /\ fund.calls["first"].error = StillShort
  /\ fund.calls["first"].faucetCalls = 1
  /\ fund.calls["first"].payments = 0
  /\ fund.calls["first"].amount = 100
  /\ fund.wallet = Account(100)

(* C38: a fundWallet call returns normally only from the read of a target  *)
(* that exists with at least the amount, having submitted no Payment and   *)
(* moved nothing, or from its one Payment, validated with tesSUCCESS, that *)
(* moved exactly the amount from the fund wallet to the target; a step     *)
(* that ends the call otherwise throws (a failed account_info, a Payment   *)
(* with another result); no call submits more than one Payment and a call  *)
(* that has ended does nothing more.                                       *)
C38_ReturnsOnlyTwoWays ==
  [][\A c \in Callers :
       LET call == fund.calls[c]
           after == fund'.calls[c] IN
       /\ (call.pc # "returned" /\ after.pc = "returned")
            => /\ after.error = ""
               /\ \/ /\ call.pc = "readTarget"
                     /\ fund.target.exists /\ fund.target.balance >= call.amount
                     /\ after.payments = 0
                     /\ fund'.target = fund.target /\ fund'.wallet = fund.wallet
                  \/ /\ call.pc = "submit"
                     /\ after.payments = 1
                     /\ fund'.target = Account(fund.target.balance + call.amount)
                     /\ fund'.wallet = Account(fund.wallet.balance - call.amount)
       /\ after.payments <= 1
       /\ after.payments # call.payments => call.pc = "submit"
       /\ (call.pc = "submit" /\ after.pc # "submit")
            => \/ after.pc = "returned"
               \/ /\ after.pc = "thrown" /\ after.error = "Transfer failed"
                  /\ fund'.target = fund.target /\ fund'.wallet = fund.wallet
       /\ (after.error = "account_info" /\ after # call)
            => /\ after.pc = "thrown"
               /\ fund'.target = fund.target /\ fund'.wallet = fund.wallet
       /\ call.pc \in {"returned", "thrown"} => after = call]_vars

(* one call has returned after its Payment while the other's Payment came  *)
(* back with a result other than tesSUCCESS and the call threw             *)
C38_Witness ==
  /\ fund.calls["first"].pc = "returned"
  /\ fund.calls["first"].payments = 1
  /\ fund.calls["second"].pc = "thrown"
  /\ fund.calls["second"].error = "Transfer failed"
  /\ fund.calls["second"].payments = 1
  /\ fund.target.exists

Paid(call) == call.pc = "returned" /\ call.payments = 1

(* C39: whatever the interleaving of two fundWallet calls for the same     *)
(* target and the same amount, at most one of them pays the target.        *)
C39_AtMostOnePayment ==
  (/\ fund.calls["first"].pc # "idle" /\ fund.calls["second"].pc # "idle"
   /\ fund.calls["first"].amount = fund.calls["second"].amount)
    => ~(Paid(fund.calls["first"]) /\ Paid(fund.calls["second"]))

Usable(x) == x.client /\ x.connected

(* C40: getXRPLClient returns the client exactly when a client has been    *)
(* created and is connected, and throws 'XRPL client not initialized or    *)
(* connected' otherwise; a client becomes connected only when the connect  *)
(* of an initializeXRPLClient call resolves; before any initialization,    *)
(* while a connect is pending, after a rejected initialization, after      *)
(* disconnectXRPLClient and after client.disconnect() it is not usable;    *)
(* disconnectXRPLClient on a missing or disconnected client changes        *)
(* nothing; fundWallet, which takes the client, throws the same message    *)
(* when the client is not usable.                                          *)
C40_ClientOnlyWhileConnected ==
  [][/\ xrpl'.op = "getXRPLClient"
          => /\ xrpl'.outcome = IF Usable(xrpl) THEN "returned" ELSE "thrown"
             /\ Usable(xrpl') = Usable(xrpl)
     /\ (Usable(xrpl') /\ ~Usable(xrpl))
          => /\ xrpl.pc = "connecting"
             /\ xrpl'.op = "initializeXRPLClient" /\ xrpl'.outcome = "resolved"
     /\ xrpl'.op = "none" => ~Usable(xrpl')
     /\ (xrpl'.op = "initializeXRPLClient" /\ xrpl'.outcome \in {"pending", "rejected"})
          => ~Usable(xrpl')
     /\ xrpl'.op \in {"disconnectXRPLClient", "client.disconnect"} => ~Usable(xrpl')
     /\ (xrpl'.op = "disconnectXRPLClient" /\ ~Usable(xrpl))
          => /\ xrpl'.client = xrpl.client /\ xrpl'.connected = xrpl.connected
             /\ xrpl'.pc = xrpl.pc /\ xrpl'.held = xrpl.held
     /\ \A c \in Callers :
          (fund.calls[c].pc = "idle" /\ fund'.calls[c].pc # "idle"
           /\ fund'.calls[c].amount >= 1 /\ fund'.calls[c].amount <= 100)
            => IF Usable(xrpl)
                 THEN fund'.calls[c].pc = "readTarget"
                 ELSE fund'.calls[c].pc = "thrown" /\ fund'.calls[c].error = NotConnected]_vars

(* getXRPLClient has just thrown for a client that had been connected and  *)
(* handed out and was then disconnected                                    *)
C40_Witness ==
  /\ xrpl.op = "getXRPLClient"
  /\ xrpl.outcome = "thrown"
  /\ xrpl.client /\ xrpl.held /\ ~xrpl.connected

(* the ledger that applying req whole, in one step, to the present ledger  *)
(* would give                                                              *)
AppliedWhole(req) ==
  IF ~Applied(RequestResult(req)) THEN lines
  ELSE IF req.type = "Payment" THEN adjustBalance(req.account, req.peer, req.amount)
  ELSE [lines EXCEPT ![req.account] = HolderTrustSet(@, req.amount, "")]

(* C35: apply takes one transaction at a time from validate to completion: *)
(* while one is being applied no other is accepted and the ledger of       *)
(* completed transactions does not move; on completion the ledger and the  *)
(* returned result are those of applying that transaction whole to the     *)
(* ledger left by the previous one, so the state is always that of the     *)
(* submitted transactions applied in the order of their completion; and    *)
(* every read returns the ledger as some completed transaction left it,    *)
(* never the store of a transaction under way.                             *)
C35_SerializedApply ==
  [][/\ engine.phase # "idle"
          => /\ engine'.owner = engine.owner
             /\ engine'.pending[engine.owner] = Current \/ engine.phase = "commit"
     /\ engine.phase # "commit" => lines' = lines /\ last' = NoTx
     /\ (engine.phase = "commit" /\ engine'.phase = "idle")
          => /\ lines' = AppliedWhole(Current)
             /\ last'.result = RequestResult(Current)
             /\ last'.account = Current.account /\ last'.peer = Current.peer
             /\ last'.amount = Current.amount /\ last'.type = Current.type
             /\ engine'.pending[engine.owner] = NoRequest
     /\ (engine'.phase # "idle" /\ engine.phase = "idle")
          => engine'.phase = "validate" /\ engine'.working = lines
     /\ engine'.seen # NoSnapshot
          => engine'.seen = Snapshot(lines) /\ lines' = lines]_vars

(* a read between two transactions has returned the balances as the last  *)
(* completed payment from Alice to Bob left them, while both submitters    *)
(* have a transaction waiting to be accepted                               *)
C35_Witness ==
  /\ engine.phase = "idle"
  /\ engine.seen = Snapshot(lines)
  /\ lines[aliceWallet].balance > 0 /\ lines[bobWallet].balance > 0
  /\ \A s \in Callers : engine.pending[s] # NoRequest

(* --------------------------- all flows --------------------------------- *)
Init ==
  \/ InitAuth \/ InitFreeze \/ InitDeposit \/ InitDepositCheck \/ InitCheck
  \/ InitClawback \/ InitDisallow \/ InitRipple \/ InitFund \/ InitClient
  \/ InitEngine

Next ==
  \/ NextAuth \/ NextFreeze \/ NextDeposit \/ NextDepositCheck \/ NextCheck
  \/ NextClawback \/ NextDisallow \/ NextRipple \/ NextFund \/ NextClient
  \/ NextEngine

Spec == Init /\ [][Next]_vars
====
